---- MODULE Spec2Model ----
(***************************************************************************)
(* RunCloud MCP server: the tool dispatcher of the three server variants   *)
(* of the repository (src/index-basic.js with 13 tools, the 54-tool server *)
(* and the full 93-tool server kept in src/README.md), as a state machine. *)
(*                                                                         *)
(* The process starts (Start), reading its environment; once it runs,      *)
(* CallTool runs the call handler up to its first await (dispatch,         *)
(* argument mapping, the axios call), HttpSettle resumes it with the       *)
(* outcome of the HTTP request, and Discard drops the finished request.    *)
(* ListTools serves the tool listing.  Spec handles one request at a time  *)
(* over the whole space of arguments; SpecServe has two invocations in     *)
(* flight at once over a few calls, and keeps count of what was served.    *)
(***************************************************************************)
EXTENDS Integers, Sequences, FiniteSets, TLC

VARIABLES
  variant,   \* which server program runs: "basic", "v54" or "full"
  env,       \* process.env after dotenv.config()
  proc,      \* the process: starting, running or exited, and its stderr
  api,       \* the axios instance every handler method calls
  listed,    \* the tools of the ListTools response in hand (<<>>: none)
  inv,       \* the invocation being handled
  other,     \* a second invocation in flight next to inv
  hist       \* what the server has served so far

vars == <<variant, env, proc, api, listed, inv, other, hist>>

(***************************************************************************)
(* Bounds of the model.                                                    *)
(***************************************************************************)
\* How many fields of a call's arguments differ from the tool's plain call
\* (every required field supplied with a value of the declared type).
MaxDev == 2

\* How many ListTools requests and how many finished tool calls SpecServe
\* follows.
MaxLists == 2
MaxServed == 3

(***************************************************************************)
(* JavaScript values.  A value is its typeof tag with its String()         *)
(* rendering, kept as a sequence of tokens in which "/" is a token of its  *)
(* own, so that a path built by a template literal can be split again.     *)
(***************************************************************************)
JsUndefined == [t |-> "undefined", s |-> <<"undefined">>]
JsNull == [t |-> "null", s |-> <<"null">>]
JsNum(tok) == [t |-> "number", s |-> <<tok>>]
JsStr(toks) == [t |-> "string", s |-> toks]
JsBool(b) == [t |-> "boolean", s |-> IF b THEN <<"true">> ELSE <<"false">>]

\* ToBoolean: undefined, null, 0, NaN, "" and false are falsy.
Truthy(v) ==
  CASE v.t = "undefined" -> FALSE
    [] v.t = "null" -> FALSE
    [] v.t = "number" -> v.s \notin {<<"0">>, <<"NaN">>}
    [] v.t = "string" -> v.s # <<>>
    [] v.t = "boolean" -> v.s = <<"true">>
    [] OTHER -> TRUE

\* a ?? d : only undefined and null give way to the default.
JsNullish(a, d) == IF a.t \in {"undefined", "null"} THEN d ELSE a

\* a || d
JsOr(a, d) == IF Truthy(a) THEN a ELSE d

\* a !== false  (also written  a === false ? false : true)
JsNotFalse(a) == JsBool(a # JsBool(FALSE))

\* An object literal: a function from its keys to values.
EmptyObject == [k \in {} |-> JsUndefined]
SetKey(o, key, val) ==
  [k \in DOMAIN o \cup {key} |-> IF k = key THEN val ELSE o[k]]

\* args.f : reading a missing property gives undefined.
Get(o, f) == IF f \in DOMAIN o THEN o[f] ELSE JsUndefined

(***************************************************************************)
(* Shapes of the tables below.                                             *)
(***************************************************************************)
\* One property of an inputSchema: its name, declared type, enum literals
\* ({} when none) and the default its description documents, if any.
P(f, type, enum, hasDefault, default) ==
  [f |-> f, type |-> type, enum |-> enum,
   hasDefault |-> hasDefault, default |-> default]

\* One tool descriptor of a tools array.
T(name, props, required) ==
  [name |-> name, props |-> props, required |-> required]

\* Pieces of a path template literal: literal text, or ${args.f}.
L(toks) == [lit |-> toks, arg |-> ""]
A(f) == [lit |-> <<>>, arg |-> f]

\* The condition an assignment stands under:  if (args.f === 'lit') { .. }
\* or  if (data.f === 'lit') { .. }.
NoGuard == [on |-> "none", f |-> "", lit |-> <<>>]
G(on, f, lit) == [on |-> on, f |-> f, lit |-> lit]

\* One assignment to the params or data object of a handler method:
\*   copy       k: args.a                 /  data.k = args.a
\*   or         k: args.a || d            /  data.k = args.a || d
\*   notFalse   k: args.a !== false       /  k: args.a === false ? false : true
\*   ifTruthy   if (args.a) data.k = args.a
\*   ifDefined  if (args.a !== undefined) data.k = args.a
R(k, a, op, d, g) == [k |-> k, a |-> a, op |-> op, d |-> d, g |-> g]

\* One handler method: whether it reads a property of args, the axios verb,
\* the path template, the assignments to params, whether a request body is
\* passed, and the assignments to the body object.
H(reads, method, path, query, hasBody, body) ==
  [reads |-> reads, method |-> method, path |-> path, query |-> query,
   hasBody |-> hasBody, body |-> body]

(***************************************************************************)
(* The three programs: tools array (ListToolsRequestSchema handler), the   *)
(* switch of the CallToolRequestSchema handler, and the handler methods.   *)
(***************************************************************************)
BasicTools ==
  <<
     T("list_servers",
       <<P("search", "string", {}, FALSE, <<>>), P("page", "number", {}, FALSE, <<>>)>>,
       {}),
     T("get_server",
       <<P("serverId", "number", {}, FALSE, <<>>)>>,
       {"serverId"}),
     T("get_server_stats",
       <<P("serverId", "number", {}, FALSE, <<>>)>>,
       {"serverId"}),
     T("list_webapps",
       <<P("serverId", "number", {}, FALSE, <<>>),
         P("search", "string", {}, FALSE, <<>>),
         P("page", "number", {}, FALSE, <<>>)>>,
       {"serverId"}),
     T("get_webapp",
       <<P("serverId", "number", {}, FALSE, <<>>), P("webappId", "number", {}, FALSE, <<>>)>>,
       {"serverId", "webappId"}),
     T("create_webapp",
       <<P("serverId", "number", {}, FALSE, <<>>),
         P("name", "string", {}, FALSE, <<>>),
         P("domainName", "string", {}, FALSE, <<>>),
         P("user", "string", {}, FALSE, <<>>),
         P("phpVersion", "string", {}, FALSE, <<>>),
         P("stack", "string", {"hybrid", "nativenginx"}, FALSE, <<>>),
         P("stackMode", "string", {"production", "development"}, FALSE, <<>>)>>,
       {"serverId", "name", "domainName", "user", "phpVersion", "stack", "stackMode"}),
     T("list_databases",
       <<P("serverId", "number", {}, FALSE, <<>>),
         P("search", "string", {}, FALSE, <<>>),
         P("page", "number", {}, FALSE, <<>>)>>,
       {"serverId"}),
     T("create_database",
       <<P("serverId", "number", {}, FALSE, <<>>),
         P("name", "string", {}, FALSE, <<>>),
         P("collation", "string", {}, TRUE, <<"utf8mb4_unicode_ci">>)>>,
       {"serverId", "name"}),
     T("list_database_users",
       <<P("serverId", "number", {}, FALSE, <<>>),
         P("search", "string", {}, FALSE, <<>>),
         P("page", "number", {}, FALSE, <<>>)>>,
       {"serverId"}),
     T("create_database_user",
       <<P("serverId", "number", {}, FALSE, <<>>),
         P("username", "string", {}, FALSE, <<>>),
         P("password", "string", {}, FALSE, <<>>)>>,
       {"serverId", "username", "password"}),
     T("list_services",
       <<P("serverId", "number", {}, FALSE, <<>>)>>,
       {"serverId"}),
     T("control_service",
       <<P("serverId", "number", {}, FALSE, <<>>),
         P("action", "string", {"start", "stop", "restart", "reload"}, FALSE, <<>>),
         P("service", "string", {"nginx-rc", "apache2-rc", "mysql", "redis-server", "memcached", "beanstalkd", "supervisord"}, FALSE, <<>>)>>,
       {"serverId", "action", "service"}),
     T("deploy_git",
       <<P("serverId", "number", {}, FALSE, <<>>),
         P("webappId", "number", {}, FALSE, <<>>),
         P("gitId", "number", {}, FALSE, <<>>)>>,
       {"serverId", "webappId", "gitId"})
  >>

BasicSwitch(name) ==
  CASE name = "list_servers" -> "listServers"
    [] name = "get_server" -> "getServer"
    [] name = "get_server_stats" -> "getServerStats"
    [] name = "list_webapps" -> "listWebapps"
    [] name = "get_webapp" -> "getWebapp"
    [] name = "create_webapp" -> "createWebapp"
    [] name = "list_databases" -> "listDatabases"
    [] name = "create_database" -> "createDatabase"
    [] name = "list_database_users" -> "listDatabaseUsers"
    [] name = "create_database_user" -> "createDatabaseUser"
    [] name = "list_services" -> "listServices"
    [] name = "control_service" -> "controlService"
    [] name = "deploy_git" -> "deployGit"
    [] OTHER -> "default"

BasicHandler(h) ==
  CASE h = "listServers" ->
       H(TRUE, "GET", <<L(<<"/", "servers">>)>>,
         <<R("search", "search", "ifTruthy", JsUndefined, NoGuard),
             R("page", "page", "ifTruthy", JsUndefined, NoGuard)>>,
         FALSE, <<>>)
    [] h = "getServer" ->
       H(TRUE, "GET", <<L(<<"/", "servers", "/">>), A("serverId")>>,
         <<>>,
         FALSE, <<>>)
    [] h = "getServerStats" ->
       H(TRUE, "GET", <<L(<<"/", "servers", "/">>), A("serverId"), L(<<"/", "stats">>)>>,
         <<>>,
         FALSE, <<>>)
    [] h = "listWebapps" ->
       H(TRUE, "GET", <<L(<<"/", "servers", "/">>), A("serverId"), L(<<"/", "webapps">>)>>,
         <<R("search", "search", "ifTruthy", JsUndefined, NoGuard),
             R("page", "page", "ifTruthy", JsUndefined, NoGuard)>>,
         FALSE, <<>>)
    [] h = "getWebapp" ->
       H(TRUE, "GET", <<L(<<"/", "servers", "/">>), A("serverId"), L(<<"/", "webapps", "/">>), A("webappId")>>,
         <<>>,
         FALSE, <<>>)
    [] h = "createWebapp" ->
       H(TRUE, "POST", <<L(<<"/", "servers", "/">>), A("serverId"), L(<<"/", "webapps", "/", "custom">>)>>,
         <<>>,
         TRUE, <<R("name", "name", "copy", JsUndefined, NoGuard),
             R("domainName", "domainName", "copy", JsUndefined, NoGuard),
             R("user", "user", "copy", JsUndefined, NoGuard),
             R("phpVersion", "phpVersion", "copy", JsUndefined, NoGuard),
             R("stack", "stack", "copy", JsUndefined, NoGuard),
             R("stackMode", "stackMode", "copy", JsUndefined, NoGuard)>>)
    [] h = "listDatabases" ->
       H(TRUE, "GET", <<L(<<"/", "servers", "/">>), A("serverId"), L(<<"/", "databases">>)>>,
         <<R("search", "search", "ifTruthy", JsUndefined, NoGuard),
             R("page", "page", "ifTruthy", JsUndefined, NoGuard)>>,
         FALSE, <<>>)
    [] h = "createDatabase" ->
       H(TRUE, "POST", <<L(<<"/", "servers", "/">>), A("serverId"), L(<<"/", "databases">>)>>,
         <<>>,
         TRUE, <<R("name", "name", "copy", JsUndefined, NoGuard),
             R("collation", "collation", "ifTruthy", JsUndefined, NoGuard)>>)
    [] h = "listDatabaseUsers" ->
       H(TRUE, "GET", <<L(<<"/", "servers", "/">>), A("serverId"), L(<<"/", "databaseusers">>)>>,
         <<R("search", "search", "ifTruthy", JsUndefined, NoGuard),
             R("page", "page", "ifTruthy", JsUndefined, NoGuard)>>,
         FALSE, <<>>)
    [] h = "createDatabaseUser" ->
       H(TRUE, "POST", <<L(<<"/", "servers", "/">>), A("serverId"), L(<<"/", "databaseusers">>)>>,
         <<>>,
         TRUE, <<R("username", "username", "copy", JsUndefined, NoGuard),
             R("password", "password", "copy", JsUndefined, NoGuard)>>)
    [] h = "listServices" ->
       H(TRUE, "GET", <<L(<<"/", "servers", "/">>), A("serverId"), L(<<"/", "services">>)>>,
         <<>>,
         FALSE, <<>>)
    [] h = "controlService" ->
       H(TRUE, "PATCH", <<L(<<"/", "servers", "/">>), A("serverId"), L(<<"/", "services">>)>>,
         <<>>,
         TRUE, <<R("action", "action", "copy", JsUndefined, NoGuard),
             R("realName", "service", "copy", JsUndefined, NoGuard)>>)
    [] h = "deployGit" ->
       H(TRUE, "PUT", <<L(<<"/", "servers", "/">>), A("serverId"), L(<<"/", "webapps", "/">>), A("webappId"), L(<<"/", "git", "/">>), A("gitId"), L(<<"/", "script">>)>>,
         <<>>,
         FALSE, <<>>)

V54Tools ==
  <<
     T("list_servers",
       <<P("search", "string", {}, FALSE, <<>>), P("page", "number", {}, FALSE, <<>>)>>,
       {}),
     T("get_server",
       <<P("serverId", "number", {}, FALSE, <<>>)>>,
       {"serverId"}),
     T("create_server",
       <<P("name", "string", {}, FALSE, <<>>),
         P("ipAddress", "string", {}, FALSE, <<>>),
         P("provider", "string", {}, FALSE, <<>>)>>,
       {"name", "ipAddress"}),
     T("delete_server",
       <<P("serverId", "number", {}, FALSE, <<>>)>>,
       {"serverId"}),
     T("get_server_stats",
       <<P("serverId", "number", {}, FALSE, <<>>)>>,
       {"serverId"}),
     T("get_server_hardware_info",
       <<P("serverId", "number", {}, FALSE, <<>>)>>,
       {"serverId"}),
     T("get_installation_script",
       <<P("serverId", "number", {}, FALSE, <<>>)>>,
       {"serverId"}),
     T("list_webapps",
       <<P("serverId", "number", {}, FALSE, <<>>),
         P("search", "string", {}, FALSE, <<>>),
         P("page", "number", {}, FALSE, <<>>)>>,
       {"serverId"}),
     T("get_webapp",
       <<P("serverId", "number", {}, FALSE, <<>>), P("webappId", "number", {}, FALSE, <<>>)>>,
       {"serverId", "webappId"}),
     T("create_webapp",
       <<P("serverId", "number", {}, FALSE, <<>>),
         P("name", "string", {}, FALSE, <<>>),
         P("domainName", "string", {}, FALSE, <<>>),
         P("user", "string", {}, FALSE, <<>>),
         P("phpVersion", "string", {}, FALSE, <<>>),
         P("stack", "string", {"hybrid", "nativenginx"}, FALSE, <<>>),
         P("stackMode", "string", {"production", "development"}, FALSE, <<>>)>>,
       {"serverId", "name", "domainName", "user", "phpVersion", "stack", "stackMode"}),
     T("delete_webapp",
       <<P("serverId", "number", {}, FALSE, <<>>), P("webappId", "number", {}, FALSE, <<>>)>>,
       {"serverId", "webappId"}),
     T("set_webapp_default",
       <<P("serverId", "number", {}, FALSE, <<>>), P("webappId", "number", {}, FALSE, <<>>)>>,
       {"serverId", "webappId"}),
     T("rebuild_webapp",
       <<P("serverId", "number", {}, FALSE, <<>>), P("webappId", "number", {}, FALSE, <<>>)>>,
       {"serverId", "webappId"}),
     T("clone_git_repository",
       <<P("serverId", "number", {}, FALSE, <<>>),
         P("webappId", "number", {}, FALSE, <<>>),
         P("provider", "string", {"github", "gitlab", "bitbucket", "custom"}, FALSE, <<>>),
         P("repository", "string", {}, FALSE, <<>>),
         P("branch", "string", {}, FALSE, <<>>),
         P("autoDeploy", "boolean", {}, FALSE, <<>>)>>,
       {"serverId", "webappId", "provider", "repository"}),
     T("get_git_info",
       <<P("serverId", "number", {}, FALSE, <<>>), P("webappId", "number", {}, FALSE, <<>>)>>,
       {"serverId", "webappId"}),
     T("change_git_branch",
       <<P("serverId", "number", {}, FALSE, <<>>),
         P("webappId", "number", {}, FALSE, <<>>),
         P("gitId", "number", {}, FALSE, <<>>),
         P("branch", "string", {}, FALSE, <<>>)>>,
       {"serverId", "webappId", "gitId", "branch"}),
     T("deploy_git",
       <<P("serverId", "number", {}, FALSE, <<>>),
         P("webappId", "number", {}, FALSE, <<>>),
         P("gitId", "number", {}, FALSE, <<>>)>>,
       {"serverId", "webappId", "gitId"}),
     T("list_domains",
       <<P("serverId", "number", {}, FALSE, <<>>), P("webappId", "number", {}, FALSE, <<>>)>>,
       {"serverId", "webappId"}),
     T("add_domain",
       <<P("serverId", "number", {}, FALSE, <<>>),
         P("webappId", "number", {}, FALSE, <<>>),
         P("name", "string", {}, FALSE, <<>>),
         P("type", "string", {"primary", "alias", "redirect"}, FALSE, <<>>),
         P("enableWww", "boolean", {}, FALSE, <<>>),
         P("wwwRedirect", "string", {"none", "www", "non-www"}, FALSE, <<>>)>>,
       {"serverId", "webappId", "name"}),
     T("delete_domain",
       <<P("serverId", "number", {}, FALSE, <<>>),
         P("webappId", "number", {}, FALSE, <<>>),
         P("domainId", "number", {}, FALSE, <<>>)>>,
       {"serverId", "webappId", "domainId"}),
     T("install_ssl",
       <<P("serverId", "number", {}, FALSE, <<>>),
         P("webappId", "number", {}, FALSE, <<>>),
         P("provider", "string", {"letsencrypt", "custom"}, FALSE, <<>>),
         P("enableHttp", "boolean", {}, FALSE, <<>>),
         P("enableHsts", "boolean", {}, FALSE, <<>>),
         P("sslCert", "string", {}, FALSE, <<>>),
         P("sslKey", "string", {}, FALSE, <<>>),
         P("sslCa", "string", {}, FALSE, <<>>)>>,
       {"serverId", "webappId", "provider"}),
     T("get_ssl_info",
       <<P("serverId", "number", {}, FALSE, <<>>), P("webappId", "number", {}, FALSE, <<>>)>>,
       {"serverId", "webappId"}),
     T("list_databases",
       <<P("serverId", "number", {}, FALSE, <<>>),
         P("search", "string", {}, FALSE, <<>>),
         P("page", "number", {}, FALSE, <<>>)>>,
       {"serverId"}),
     T("create_database",
       <<P("serverId", "number", {}, FALSE, <<>>),
         P("name", "string", {}, FALSE, <<>>),
         P("collation", "string", {}, TRUE, <<"utf8mb4_unicode_ci">>)>>,
       {"serverId", "name"}),
     T("delete_database",
       <<P("serverId", "number", {}, FALSE, <<>>), P("databaseId", "number", {}, FALSE, <<>>)>>,
       {"serverId", "databaseId"}),
     T("list_database_users",
       <<P("serverId", "number", {}, FALSE, <<>>),
         P("search", "string", {}, FALSE, <<>>),
         P("page", "number", {}, FALSE, <<>>)>>,
       {"serverId"}),
     T("create_database_user",
       <<P("serverId", "number", {}, FALSE, <<>>),
         P("username", "string", {}, FALSE, <<>>),
         P("password", "string", {}, FALSE, <<>>)>>,
       {"serverId", "username", "password"}),
     T("delete_database_user",
       <<P("serverId", "number", {}, FALSE, <<>>), P("userId", "number", {}, FALSE, <<>>)>>,
       {"serverId", "userId"}),
     T("update_database_user_password",
       <<P("serverId", "number", {}, FALSE, <<>>),
         P("userId", "number", {}, FALSE, <<>>),
         P("password", "string", {}, FALSE, <<>>)>>,
       {"serverId", "userId", "password"}),
     T("grant_database_access",
       <<P("serverId", "number", {}, FALSE, <<>>),
         P("databaseId", "number", {}, FALSE, <<>>),
         P("userId", "number", {}, FALSE, <<>>)>>,
       {"serverId", "databaseId", "userId"}),
     T("revoke_database_access",
       <<P("serverId", "number", {}, FALSE, <<>>),
         P("databaseId", "number", {}, FALSE, <<>>),
         P("userId", "number", {}, FALSE, <<>>)>>,
       {"serverId", "databaseId", "userId"}),
     T("list_system_users",
       <<P("serverId", "number", {}, FALSE, <<>>),
         P("search", "string", {}, FALSE, <<>>),
         P("page", "number", {}, FALSE, <<>>)>>,
       {"serverId"}),
     T("create_system_user",
       <<P("serverId", "number", {}, FALSE, <<>>),
         P("username", "string", {}, FALSE, <<>>),
         P("password", "string", {}, FALSE, <<>>)>>,
       {"serverId", "username", "password"}),
     T("delete_system_user",
       <<P("serverId", "number", {}, FALSE, <<>>), P("userId", "number", {}, FALSE, <<>>)>>,
       {"serverId", "userId"}),
     T("update_system_user_password",
       <<P("serverId", "number", {}, FALSE, <<>>),
         P("userId", "number", {}, FALSE, <<>>),
         P("password", "string", {}, FALSE, <<>>)>>,
       {"serverId", "userId", "password"}),
     T("list_ssh_keys",
       <<P("serverId", "number", {}, FALSE, <<>>), P("userId", "number", {}, FALSE, <<>>)>>,
       {"serverId", "userId"}),
     T("add_ssh_key",
       <<P("serverId", "number", {}, FALSE, <<>>),
         P("userId", "number", {}, FALSE, <<>>),
         P("name", "string", {}, FALSE, <<>>),
         P("publicKey", "string", {}, FALSE, <<>>)>>,
       {"serverId", "userId", "name", "publicKey"}),
     T("delete_ssh_key",
       <<P("serverId", "number", {}, FALSE, <<>>),
         P("userId", "number", {}, FALSE, <<>>),
         P("keyId", "number", {}, FALSE, <<>>)>>,
       {"serverId", "userId", "keyId"}),
     T("list_cron_jobs",
       <<P("serverId", "number", {}, FALSE, <<>>),
         P("search", "string", {}, FALSE, <<>>),
         P("page", "number", {}, FALSE, <<>>)>>,
       {"serverId"}),
     T("create_cron_job",
       <<P("serverId", "number", {}, FALSE, <<>>),
         P("label", "string", {}, FALSE, <<>>),
         P("username", "string", {}, FALSE, <<>>),
         P("command", "string", {}, FALSE, <<>>),
         P("minute", "string", {}, FALSE, <<>>),
         P("hour", "string", {}, FALSE, <<>>),
         P("dayOfMonth", "string", {}, FALSE, <<>>),
         P("month", "string", {}, FALSE, <<>>),
         P("dayOfWeek", "string", {}, FALSE, <<>>)>>,
       {"serverId", "label", "username", "command", "minute", "hour", "dayOfMonth", "month", "dayOfWeek"}),
     T("delete_cron_job",
       <<P("serverId", "number", {}, FALSE, <<>>), P("cronId", "number", {}, FALSE, <<>>)>>,
       {"serverId", "cronId"}),
     T("list_services",
       <<P("serverId", "number", {}, FALSE, <<>>)>>,
       {"serverId"}),
     T("control_service",
       <<P("serverId", "number", {}, FALSE, <<>>),
         P("action", "string", {"start", "stop", "restart", "reload"}, FALSE, <<>>),
         P("service", "string", {"nginx-rc", "apache2-rc", "mysql", "redis-server", "memcached", "beanstalkd", "supervisord"}, FALSE, <<>>)>>,
       {"serverId", "action", "service"}),
     T("list_supervisor_jobs",
       <<P("serverId", "number", {}, FALSE, <<>>),
         P("search", "string", {}, FALSE, <<>>),
         P("page", "number", {}, FALSE, <<>>)>>,
       {"serverId"}),
     T("create_supervisor_job",
       <<P("serverId", "number", {}, FALSE, <<>>),
         P("name", "string", {}, FALSE, <<>>),
         P("username", "string", {}, FALSE, <<>>),
         P("directory", "string", {}, FALSE, <<>>),
         P("command", "string", {}, FALSE, <<>>),
         P("processNum", "number", {}, FALSE, <<>>),
         P("autoStart", "boolean", {}, FALSE, <<>>),
         P("autoRestart", "boolean", {}, FALSE, <<>>),
         P("startSecs", "number", {}, FALSE, <<>>),
         P("environment", "string", {}, FALSE, <<>>)>>,
       {"serverId", "name", "username", "directory", "command"}),
     T("delete_supervisor_job",
       <<P("serverId", "number", {}, FALSE, <<>>), P("jobId", "number", {}, FALSE, <<>>)>>,
       {"serverId", "jobId"}),
     T("control_supervisor_job",
       <<P("serverId", "number", {}, FALSE, <<>>),
         P("jobId", "number", {}, FALSE, <<>>),
         P("action", "string", {"start", "stop", "restart"}, FALSE, <<>>)>>,
       {"serverId", "jobId", "action"}),
     T("get_server_logs",
       <<P("serverId", "number", {}, FALSE, <<>>),
         P("type", "string", {"agent", "nginx-error", "nginx-access", "apache-error", "apache-access", "mysql-general", "mysql-error", "mysql-slow-query"}, FALSE, <<>>),
         P("lines", "number", {}, FALSE, <<>>)>>,
       {"serverId", "type"}),
     T("get_webapp_logs",
       <<P("serverId", "number", {}, FALSE, <<>>),
         P("webappId", "number", {}, FALSE, <<>>),
         P("type", "string", {"error", "access"}, FALSE, <<>>),
         P("lines", "number", {}, FALSE, <<>>)>>,
       {"serverId", "webappId", "type"}),
     T("get_firewall_rules",
       <<P("serverId", "number", {}, FALSE, <<>>)>>,
       {"serverId"}),
     T("add_firewall_rule",
       <<P("serverId", "number", {}, FALSE, <<>>),
         P("name", "string", {}, FALSE, <<>>),
         P("type", "string", {"allow", "deny"}, FALSE, <<>>),
         P("protocol", "string", {"tcp", "udp"}, FALSE, <<>>),
         P("port", "string", {}, FALSE, <<>>),
         P("source", "string", {}, FALSE, <<>>)>>,
       {"serverId", "name", "type", "protocol", "port"}),
     T("delete_firewall_rule",
       <<P("serverId", "number", {}, FALSE, <<>>), P("ruleId", "number", {}, FALSE, <<>>)>>,
       {"serverId", "ruleId"}),
     T("install_script",
       <<P("serverId", "number", {}, FALSE, <<>>),
         P("webappId", "number", {}, FALSE, <<>>),
         P("name", "string", {"wordpress", "joomla", "drupal", "phpmyadmin", "prestashop", "magento"}, FALSE, <<>>),
         P("username", "string", {}, FALSE, <<>>),
         P("email", "string", {}, FALSE, <<>>),
         P("password", "string", {}, FALSE, <<>>),
         P("title", "string", {}, FALSE, <<>>),
         P("locale", "string", {}, FALSE, <<>>)>>,
       {"serverId", "webappId", "name", "username", "email", "password"}),
     T("health_check",
       <<>>,
       {})
  >>

V54Switch(name) ==
  CASE name = "list_servers" -> "listServers"
    [] name = "get_server" -> "getServer"
    [] name = "create_server" -> "createServer"
    [] name = "delete_server" -> "deleteServer"
    [] name = "get_server_stats" -> "getServerStats"
    [] name = "get_server_hardware_info" -> "getServerHardwareInfo"
    [] name = "get_installation_script" -> "getInstallationScript"
    [] name = "list_webapps" -> "listWebapps"
    [] name = "get_webapp" -> "getWebapp"
    [] name = "create_webapp" -> "createWebapp"
    [] name = "delete_webapp" -> "deleteWebapp"
    [] name = "set_webapp_default" -> "setWebappDefault"
    [] name = "rebuild_webapp" -> "rebuildWebapp"
    [] name = "clone_git_repository" -> "cloneGitRepository"
    [] name = "get_git_info" -> "getGitInfo"
    [] name = "change_git_branch" -> "changeGitBranch"
    [] name = "deploy_git" -> "deployGit"
    [] name = "list_domains" -> "listDomains"
    [] name = "add_domain" -> "addDomain"
    [] name = "delete_domain" -> "deleteDomain"
    [] name = "install_ssl" -> "installSSL"
    [] name = "get_ssl_info" -> "getSSLInfo"
    [] name = "list_databases" -> "listDatabases"
    [] name = "create_database" -> "createDatabase"
    [] name = "delete_database" -> "deleteDatabase"
    [] name = "list_database_users" -> "listDatabaseUsers"
    [] name = "create_database_user" -> "createDatabaseUser"
    [] name = "delete_database_user" -> "deleteDatabaseUser"
    [] name = "update_database_user_password" -> "updateDatabaseUserPassword"
    [] name = "grant_database_access" -> "grantDatabaseAccess"
    [] name = "revoke_database_access" -> "revokeDatabaseAccess"
    [] name = "list_system_users" -> "listSystemUsers"
    [] name = "create_system_user" -> "createSystemUser"
    [] name = "delete_system_user" -> "deleteSystemUser"
    [] name = "update_system_user_password" -> "updateSystemUserPassword"
    [] name = "list_ssh_keys" -> "listSSHKeys"
    [] name = "add_ssh_key" -> "addSSHKey"
    [] name = "delete_ssh_key" -> "deleteSSHKey"
    [] name = "list_cron_jobs" -> "listCronJobs"
    [] name = "create_cron_job" -> "createCronJob"
    [] name = "delete_cron_job" -> "deleteCronJob"
    [] name = "list_services" -> "listServices"
    [] name = "control_service" -> "controlService"
    [] name = "list_supervisor_jobs" -> "listSupervisorJobs"
    [] name = "create_supervisor_job" -> "createSupervisorJob"
    [] name = "delete_supervisor_job" -> "deleteSupervisorJob"
    [] name = "control_supervisor_job" -> "controlSupervisorJob"
    [] name = "get_server_logs" -> "getServerLogs"
    [] name = "get_webapp_logs" -> "getWebappLogs"
    [] name = "get_firewall_rules" -> "getFirewallRules"
    [] name = "add_firewall_rule" -> "addFirewallRule"
    [] name = "delete_firewall_rule" -> "deleteFirewallRule"
    [] name = "install_script" -> "installScript"
    [] name = "health_check" -> "healthCheck"
    [] OTHER -> "default"

V54Handler(h) ==
  CASE h = "listServers" ->
       H(TRUE, "GET", <<L(<<"/", "servers">>)>>,
         <<R("search", "search", "ifTruthy", JsUndefined, NoGuard),
             R("page", "page", "ifTruthy", JsUndefined, NoGuard)>>,
         FALSE, <<>>)
    [] h = "getServer" ->
       H(TRUE, "GET", <<L(<<"/", "servers", "/">>), A("serverId")>>,
         <<>>,
         FALSE, <<>>)
    [] h = "createServer" ->
       H(TRUE, "POST", <<L(<<"/", "servers">>)>>,
         <<>>,
         TRUE, <<R("name", "name", "copy", JsUndefined, NoGuard),
             R("ipAddress", "ipAddress", "copy", JsUndefined, NoGuard),
             R("provider", "provider", "copy", JsUndefined, NoGuard)>>)
    [] h = "deleteServer" ->
       H(TRUE, "DELETE", <<L(<<"/", "servers", "/">>), A("serverId")>>,
         <<>>,
         FALSE, <<>>)
    [] h = "getServerStats" ->
       H(TRUE, "GET", <<L(<<"/", "servers", "/">>), A("serverId"), L(<<"/", "stats">>)>>,
         <<>>,
         FALSE, <<>>)
    [] h = "getServerHardwareInfo" ->
       H(TRUE, "GET", <<L(<<"/", "servers", "/">>), A("serverId"), L(<<"/", "hardwareinfo">>)>>,
         <<>>,
         FALSE, <<>>)
    [] h = "getInstallationScript" ->
       H(TRUE, "GET", <<L(<<"/", "servers", "/">>), A("serverId"), L(<<"/", "installationscript">>)>>,
         <<>>,
         FALSE, <<>>)
    [] h = "listWebapps" ->
       H(TRUE, "GET", <<L(<<"/", "servers", "/">>), A("serverId"), L(<<"/", "webapps">>)>>,
         <<R("search", "search", "ifTruthy", JsUndefined, NoGuard),
             R("page", "page", "ifTruthy", JsUndefined, NoGuard)>>,
         FALSE, <<>>)
    [] h = "getWebapp" ->
       H(TRUE, "GET", <<L(<<"/", "servers", "/">>), A("serverId"), L(<<"/", "webapps", "/">>), A("webappId")>>,
         <<>>,
         FALSE, <<>>)
    [] h = "createWebapp" ->
       H(TRUE, "POST", <<L(<<"/", "servers", "/">>), A("serverId"), L(<<"/", "webapps", "/", "custom">>)>>,
         <<>>,
         TRUE, <<R("name", "name", "copy", JsUndefined, NoGuard),
             R("domainName", "domainName", "copy", JsUndefined, NoGuard),
             R("user", "user", "copy", JsUndefined, NoGuard),
             R("phpVersion", "phpVersion", "copy", JsUndefined, NoGuard),
             R("stack", "stack", "copy", JsUndefined, NoGuard),
             R("stackMode", "stackMode", "copy", JsUndefined, NoGuard)>>)
    [] h = "deleteWebapp" ->
       H(TRUE, "DELETE", <<L(<<"/", "servers", "/">>), A("serverId"), L(<<"/", "webapps", "/">>), A("webappId")>>,
         <<>>,
         FALSE, <<>>)
    [] h = "setWebappDefault" ->
       H(TRUE, "POST", <<L(<<"/", "servers", "/">>), A("serverId"), L(<<"/", "webapps", "/">>), A("webappId"), L(<<"/", "default">>)>>,
         <<>>,
         FALSE, <<>>)
    [] h = "rebuildWebapp" ->
       H(TRUE, "PATCH", <<L(<<"/", "servers", "/">>), A("serverId"), L(<<"/", "webapps", "/">>), A("webappId"), L(<<"/", "rebuild">>)>>,
         <<>>,
         FALSE, <<>>)
    [] h = "cloneGitRepository" ->
       H(TRUE, "POST", <<L(<<"/", "servers", "/">>), A("serverId"), L(<<"/", "webapps", "/">>), A("webappId"), L(<<"/", "git">>)>>,
         <<>>,
         TRUE, <<R("provider", "provider", "copy", JsUndefined, NoGuard),
             R("repository", "repository", "copy", JsUndefined, NoGuard),
             R("branch", "branch", "ifTruthy", JsUndefined, NoGuard),
             R("autoDeploy", "autoDeploy", "ifDefined", JsUndefined, NoGuard)>>)
    [] h = "getGitInfo" ->
       H(TRUE, "GET", <<L(<<"/", "servers", "/">>), A("serverId"), L(<<"/", "webapps", "/">>), A("webappId"), L(<<"/", "git">>)>>,
         <<>>,
         FALSE, <<>>)
    [] h = "changeGitBranch" ->
       H(TRUE, "PATCH", <<L(<<"/", "servers", "/">>), A("serverId"), L(<<"/", "webapps", "/">>), A("webappId"), L(<<"/", "git", "/">>), A("gitId"), L(<<"/", "branch">>)>>,
         <<>>,
         TRUE, <<R("branch", "branch", "copy", JsUndefined, NoGuard)>>)
    [] h = "deployGit" ->
       H(TRUE, "PUT", <<L(<<"/", "servers", "/">>), A("serverId"), L(<<"/", "webapps", "/">>), A("webappId"), L(<<"/", "git", "/">>), A("gitId"), L(<<"/", "script">>)>>,
         <<>>,
         FALSE, <<>>)
    [] h = "listDomains" ->
       H(TRUE, "GET", <<L(<<"/", "servers", "/">>), A("serverId"), L(<<"/", "webapps", "/">>), A("webappId"), L(<<"/", "domains">>)>>,
         <<>>,
         FALSE, <<>>)
    [] h = "addDomain" ->
       H(TRUE, "POST", <<L(<<"/", "servers", "/">>), A("serverId"), L(<<"/", "webapps", "/">>), A("webappId"), L(<<"/", "domains">>)>>,
         <<>>,
         TRUE, <<R("name", "name", "copy", JsUndefined, NoGuard),
             R("type", "type", "ifTruthy", JsUndefined, NoGuard),
             R("enableWww", "enableWww", "ifDefined", JsUndefined, NoGuard),
             R("wwwRedirect", "wwwRedirect", "ifTruthy", JsUndefined, NoGuard)>>)
    [] h = "deleteDomain" ->
       H(TRUE, "DELETE", <<L(<<"/", "servers", "/">>), A("serverId"), L(<<"/", "webapps", "/">>), A("webappId"), L(<<"/", "domains", "/">>), A("domainId")>>,
         <<>>,
         FALSE, <<>>)
    [] h = "installSSL" ->
       H(TRUE, "POST", <<L(<<"/", "servers", "/">>), A("serverId"), L(<<"/", "webapps", "/">>), A("webappId"), L(<<"/", "ssl", "/", "basic">>)>>,
         <<>>,
         TRUE, <<R("provider", "provider", "copy", JsUndefined, NoGuard),
             R("enableHttp", "enableHttp", "or", JsBool(FALSE), NoGuard),
             R("enableHsts", "enableHsts", "or", JsBool(FALSE), NoGuard),
             R("sslCert", "sslCert", "copy", JsUndefined, G("args", "provider", <<"custom">>)),
             R("sslKey", "sslKey", "copy", JsUndefined, G("args", "provider", <<"custom">>)),
             R("sslCa", "sslCa", "ifTruthy", JsUndefined, G("args", "provider", <<"custom">>))>>)
    [] h = "getSSLInfo" ->
       H(TRUE, "GET", <<L(<<"/", "servers", "/">>), A("serverId"), L(<<"/", "webapps", "/">>), A("webappId"), L(<<"/", "ssl">>)>>,
         <<>>,
         FALSE, <<>>)
    [] h = "listDatabases" ->
       H(TRUE, "GET", <<L(<<"/", "servers", "/">>), A("serverId"), L(<<"/", "databases">>)>>,
         <<R("search", "search", "ifTruthy", JsUndefined, NoGuard),
             R("page", "page", "ifTruthy", JsUndefined, NoGuard)>>,
         FALSE, <<>>)
    [] h = "createDatabase" ->
       H(TRUE, "POST", <<L(<<"/", "servers", "/">>), A("serverId"), L(<<"/", "databases">>)>>,
         <<>>,
         TRUE, <<R("name", "name", "copy", JsUndefined, NoGuard),
             R("collation", "collation", "ifTruthy", JsUndefined, NoGuard)>>)
    [] h = "deleteDatabase" ->
       H(TRUE, "DELETE", <<L(<<"/", "servers", "/">>), A("serverId"), L(<<"/", "databases", "/">>), A("databaseId")>>,
         <<>>,
         FALSE, <<>>)
    [] h = "listDatabaseUsers" ->
       H(TRUE, "GET", <<L(<<"/", "servers", "/">>), A("serverId"), L(<<"/", "databaseusers">>)>>,
         <<R("search", "search", "ifTruthy", JsUndefined, NoGuard),
             R("page", "page", "ifTruthy", JsUndefined, NoGuard)>>,
         FALSE, <<>>)
    [] h = "createDatabaseUser" ->
       H(TRUE, "POST", <<L(<<"/", "servers", "/">>), A("serverId"), L(<<"/", "databaseusers">>)>>,
         <<>>,
         TRUE, <<R("username", "username", "copy", JsUndefined, NoGuard),
             R("password", "password", "copy", JsUndefined, NoGuard)>>)
    [] h = "deleteDatabaseUser" ->
       H(TRUE, "DELETE", <<L(<<"/", "servers", "/">>), A("serverId"), L(<<"/", "databaseusers", "/">>), A("userId")>>,
         <<>>,
         FALSE, <<>>)
    [] h = "updateDatabaseUserPassword" ->
       H(TRUE, "PATCH", <<L(<<"/", "servers", "/">>), A("serverId"), L(<<"/", "databaseusers", "/">>), A("userId")>>,
         <<>>,
         TRUE, <<R("password", "password", "copy", JsUndefined, NoGuard)>>)
    [] h = "grantDatabaseAccess" ->
       H(TRUE, "POST", <<L(<<"/", "servers", "/">>), A("serverId"), L(<<"/", "databases", "/">>), A("databaseId"), L(<<"/", "grant">>)>>,
         <<>>,
         TRUE, <<R("userId", "userId", "copy", JsUndefined, NoGuard)>>)
    [] h = "revokeDatabaseAccess" ->
       H(TRUE, "DELETE", <<L(<<"/", "servers", "/">>), A("serverId"), L(<<"/", "databases", "/">>), A("databaseId"), L(<<"/", "grant", "/">>), A("userId")>>,
         <<>>,
         FALSE, <<>>)
    [] h = "listSystemUsers" ->
       H(TRUE, "GET", <<L(<<"/", "servers", "/">>), A("serverId"), L(<<"/", "users">>)>>,
         <<R("search", "search", "ifTruthy", JsUndefined, NoGuard),
             R("page", "page", "ifTruthy", JsUndefined, NoGuard)>>,
         FALSE, <<>>)
    [] h = "createSystemUser" ->
       H(TRUE, "POST", <<L(<<"/", "servers", "/">>), A("serverId"), L(<<"/", "users">>)>>,
         <<>>,
         TRUE, <<R("username", "username", "copy", JsUndefined, NoGuard),
             R("password", "password", "copy", JsUndefined, NoGuard)>>)
    [] h = "deleteSystemUser" ->
       H(TRUE, "DELETE", <<L(<<"/", "servers", "/">>), A("serverId"), L(<<"/", "users", "/">>), A("userId")>>,
         <<>>,
         FALSE, <<>>)
    [] h = "updateSystemUserPassword" ->
       H(TRUE, "PATCH", <<L(<<"/", "servers", "/">>), A("serverId"), L(<<"/", "users", "/">>), A("userId")>>,
         <<>>,
         TRUE, <<R("password", "password", "copy", JsUndefined, NoGuard)>>)
    [] h = "listSSHKeys" ->
       H(TRUE, "GET", <<L(<<"/", "servers", "/">>), A("serverId"), L(<<"/", "users", "/">>), A("userId"), L(<<"/", "sshkeys">>)>>,
         <<>>,
         FALSE, <<>>)
    [] h = "addSSHKey" ->
       H(TRUE, "POST", <<L(<<"/", "servers", "/">>), A("serverId"), L(<<"/", "users", "/">>), A("userId"), L(<<"/", "sshkeys">>)>>,
         <<>>,
         TRUE, <<R("name", "name", "copy", JsUndefined, NoGuard),
             R("publicKey", "publicKey", "copy", JsUndefined, NoGuard)>>)
    [] h = "deleteSSHKey" ->
       H(TRUE, "DELETE", <<L(<<"/", "servers", "/">>), A("serverId"), L(<<"/", "users", "/">>), A("userId"), L(<<"/", "sshkeys", "/">>), A("keyId")>>,
         <<>>,
         FALSE, <<>>)
    [] h = "listCronJobs" ->
       H(TRUE, "GET", <<L(<<"/", "servers", "/">>), A("serverId"), L(<<"/", "cronjobs">>)>>,
         <<R("search", "search", "ifTruthy", JsUndefined, NoGuard),
             R("page", "page", "ifTruthy", JsUndefined, NoGuard)>>,
         FALSE, <<>>)
    [] h = "createCronJob" ->
       H(TRUE, "POST", <<L(<<"/", "servers", "/">>), A("serverId"), L(<<"/", "cronjobs">>)>>,
         <<>>,
         TRUE, <<R("label", "label", "copy", JsUndefined, NoGuard),
             R("username", "username", "copy", JsUndefined, NoGuard),
             R("command", "command", "copy", JsUndefined, NoGuard),
             R("minute", "minute", "copy", JsUndefined, NoGuard),
             R("hour", "hour", "copy", JsUndefined, NoGuard),
             R("dayOfMonth", "dayOfMonth", "copy", JsUndefined, NoGuard),
             R("month", "month", "copy", JsUndefined, NoGuard),
             R("dayOfWeek", "dayOfWeek", "copy", JsUndefined, NoGuard)>>)
    [] h = "deleteCronJob" ->
       H(TRUE, "DELETE", <<L(<<"/", "servers", "/">>), A("serverId"), L(<<"/", "cronjobs", "/">>), A("cronId")>>,
         <<>>,
         FALSE, <<>>)
    [] h = "listServices" ->
       H(TRUE, "GET", <<L(<<"/", "servers", "/">>), A("serverId"), L(<<"/", "services">>)>>,
         <<>>,
         FALSE, <<>>)
    [] h = "controlService" ->
       H(TRUE, "PATCH", <<L(<<"/", "servers", "/">>), A("serverId"), L(<<"/", "services">>)>>,
         <<>>,
         TRUE, <<R("action", "action", "copy", JsUndefined, NoGuard),
             R("realName", "service", "copy", JsUndefined, NoGuard)>>)
    [] h = "listSupervisorJobs" ->
       H(TRUE, "GET", <<L(<<"/", "servers", "/">>), A("serverId"), L(<<"/", "supervisorjobs">>)>>,
         <<R("search", "search", "ifTruthy", JsUndefined, NoGuard),
             R("page", "page", "ifTruthy", JsUndefined, NoGuard)>>,
         FALSE, <<>>)
    [] h = "createSupervisorJob" ->
       H(TRUE, "POST", <<L(<<"/", "servers", "/">>), A("serverId"), L(<<"/", "supervisorjobs">>)>>,
         <<>>,
         TRUE, <<R("name", "name", "copy", JsUndefined, NoGuard),
             R("username", "username", "copy", JsUndefined, NoGuard),
             R("directory", "directory", "copy", JsUndefined, NoGuard),
             R("command", "command", "copy", JsUndefined, NoGuard),
             R("processNum", "processNum", "ifDefined", JsUndefined, NoGuard),
             R("autoStart", "autoStart", "ifDefined", JsUndefined, NoGuard),
             R("autoRestart", "autoRestart", "ifDefined", JsUndefined, NoGuard),
             R("startSecs", "startSecs", "ifDefined", JsUndefined, NoGuard),
             R("environment", "environment", "ifTruthy", JsUndefined, NoGuard)>>)
    [] h = "deleteSupervisorJob" ->
       H(TRUE, "DELETE", <<L(<<"/", "servers", "/">>), A("serverId"), L(<<"/", "supervisorjobs", "/">>), A("jobId")>>,
         <<>>,
         FALSE, <<>>)
    [] h = "controlSupervisorJob" ->
       H(TRUE, "PATCH", <<L(<<"/", "servers", "/">>), A("serverId"), L(<<"/", "supervisorjobs", "/">>), A("jobId")>>,
         <<>>,
         TRUE, <<R("action", "action", "copy", JsUndefined, NoGuard)>>)
    [] h = "getServerLogs" ->
       H(TRUE, "GET", <<L(<<"/", "servers", "/">>), A("serverId"), L(<<"/", "logs", "/">>), A("type")>>,
         <<R("lines", "lines", "ifTruthy", JsUndefined, NoGuard)>>,
         FALSE, <<>>)
    [] h = "getWebappLogs" ->
       H(TRUE, "GET", <<L(<<"/", "servers", "/">>), A("serverId"), L(<<"/", "webapps", "/">>), A("webappId"), L(<<"/", "logs", "/">>), A("type")>>,
         <<R("lines", "lines", "ifTruthy", JsUndefined, NoGuard)>>,
         FALSE, <<>>)
    [] h = "getFirewallRules" ->
       H(TRUE, "GET", <<L(<<"/", "servers", "/">>), A("serverId"), L(<<"/", "firewall">>)>>,
         <<>>,
         FALSE, <<>>)
    [] h = "addFirewallRule" ->
       H(TRUE, "POST", <<L(<<"/", "servers", "/">>), A("serverId"), L(<<"/", "firewall">>)>>,
         <<>>,
         TRUE, <<R("name", "name", "copy", JsUndefined, NoGuard),
             R("type", "type", "copy", JsUndefined, NoGuard),
             R("protocol", "protocol", "copy", JsUndefined, NoGuard),
             R("port", "port", "copy", JsUndefined, NoGuard),
             R("source", "source", "ifTruthy", JsUndefined, NoGuard)>>)
    [] h = "deleteFirewallRule" ->
       H(TRUE, "DELETE", <<L(<<"/", "servers", "/">>), A("serverId"), L(<<"/", "firewall", "/">>), A("ruleId")>>,
         <<>>,
         FALSE, <<>>)
    [] h = "installScript" ->
       H(TRUE, "POST", <<L(<<"/", "servers", "/">>), A("serverId"), L(<<"/", "webapps", "/">>), A("webappId"), L(<<"/", "installer">>)>>,
         <<>>,
         TRUE, <<R("name", "name", "copy", JsUndefined, NoGuard),
             R("username", "username", "copy", JsUndefined, NoGuard),
             R("email", "email", "copy", JsUndefined, NoGuard),
             R("password", "password", "copy", JsUndefined, NoGuard),
             R("title", "title", "ifTruthy", JsUndefined, NoGuard),
             R("locale", "locale", "ifTruthy", JsUndefined, NoGuard)>>)
    [] h = "healthCheck" ->
       H(FALSE, "GET", <<L(<<"/", "ping">>)>>,
         <<>>,
         FALSE, <<>>)

FullTools ==
  <<
     T("list_servers",
       <<P("search", "string", {}, FALSE, <<>>), P("page", "number", {}, FALSE, <<>>)>>,
       {}),
     T("get_server",
       <<P("serverId", "number", {}, FALSE, <<>>)>>,
       {"serverId"}),
     T("create_server",
       <<P("name", "string", {}, FALSE, <<>>),
         P("ipAddress", "string", {}, FALSE, <<>>),
         P("provider", "string", {}, FALSE, <<>>)>>,
       {"name", "ipAddress"}),
     T("delete_server",
       <<P("serverId", "number", {}, FALSE, <<>>)>>,
       {"serverId"}),
     T("get_server_stats",
       <<P("serverId", "number", {}, FALSE, <<>>)>>,
       {"serverId"}),
     T("get_server_hardware_info",
       <<P("serverId", "number", {}, FALSE, <<>>)>>,
       {"serverId"}),
     T("get_installation_script",
       <<P("serverId", "number", {}, FALSE, <<>>)>>,
       {"serverId"}),
     T("get_ssh_settings",
       <<P("serverId", "number", {}, FALSE, <<>>)>>,
       {"serverId"}),
     T("update_ssh_settings",
       <<P("serverId", "number", {}, FALSE, <<>>),
         P("passwordlessLogin", "boolean", {}, FALSE, <<>>),
         P("useDns", "boolean", {}, FALSE, <<>>),
         P("preventRootLogin", "boolean", {}, FALSE, <<>>)>>,
       {"serverId"}),
     T("update_server_metadata",
       <<P("serverId", "number", {}, FALSE, <<>>),
         P("name", "string", {}, FALSE, <<>>),
         P("provider", "string", {}, FALSE, <<>>)>>,
       {"serverId"}),
     T("update_server_autoupdate",
       <<P("serverId", "number", {}, FALSE, <<>>),
         P("softwareUpdate", "boolean", {}, FALSE, <<>>),
         P("securityUpdate", "boolean", {}, FALSE, <<>>)>>,
       {"serverId"}),
     T("list_php_versions",
       <<P("serverId", "number", {}, FALSE, <<>>)>>,
       {"serverId"}),
     T("change_php_cli_version",
       <<P("serverId", "number", {}, FALSE, <<>>), P("phpVersion", "string", {}, FALSE, <<>>)>>,
       {"serverId", "phpVersion"}),
     T("list_shared_servers",
       <<P("search", "string", {}, FALSE, <<>>)>>,
       {}),
     T("list_webapps",
       <<P("serverId", "number", {}, FALSE, <<>>),
         P("search", "string", {}, FALSE, <<>>),
         P("page", "number", {}, FALSE, <<>>)>>,
       {"serverId"}),
     T("get_webapp",
       <<P("serverId", "number", {}, FALSE, <<>>), P("webappId", "number", {}, FALSE, <<>>)>>,
       {"serverId", "webappId"}),
     T("create_webapp",
       <<P("serverId", "number", {}, FALSE, <<>>),
         P("name", "string", {}, FALSE, <<>>),
         P("domainName", "string", {}, FALSE, <<>>),
         P("user", "number", {}, FALSE, <<>>),
         P("publicPath", "string", {}, TRUE, <<"/">>),
         P("phpVersion", "string", {}, FALSE, <<>>),
         P("stack", "string", {}, FALSE, <<>>),
         P("stackMode", "string", {}, FALSE, <<>>),
         P("clickjackingProtection", "boolean", {}, FALSE, <<>>),
         P("xssProtection", "boolean", {}, FALSE, <<>>),
         P("mimeSniffingProtection", "boolean", {}, FALSE, <<>>),
         P("processManager", "string", {}, FALSE, <<>>),
         P("processManagerMaxChildren", "number", {}, FALSE, <<>>),
         P("processManagerMaxRequests", "number", {}, FALSE, <<>>),
         P("processManagerStartServers", "number", {}, FALSE, <<>>),
         P("processManagerMinSpareServers", "number", {}, FALSE, <<>>),
         P("processManagerMaxSpareServers", "number", {}, FALSE, <<>>),
         P("openBasedir", "string", {}, FALSE, <<>>),
         P("timezone", "string", {}, FALSE, <<>>),
         P("disableFunctions", "string", {}, FALSE, <<>>),
         P("maxExecutionTime", "number", {}, FALSE, <<>>),
         P("maxInputTime", "number", {}, FALSE, <<>>),
         P("maxInputVars", "number", {}, FALSE, <<>>),
         P("memoryLimit", "number", {}, FALSE, <<>>),
         P("postMaxSize", "number", {}, FALSE, <<>>),
         P("uploadMaxFilesize", "number", {}, FALSE, <<>>),
         P("sessionGcMaxlifetime", "number", {}, FALSE, <<>>),
         P("allowUrlFopen", "boolean", {}, FALSE, <<>>)>>,
       {"serverId", "name", "domainName", "user"}),
     T("delete_webapp",
       <<P("serverId", "number", {}, FALSE, <<>>), P("webappId", "number", {}, FALSE, <<>>)>>,
       {"serverId", "webappId"}),
     T("set_webapp_default",
       <<P("serverId", "number", {}, FALSE, <<>>), P("webappId", "number", {}, FALSE, <<>>)>>,
       {"serverId", "webappId"}),
     T("remove_webapp_default",
       <<P("serverId", "number", {}, FALSE, <<>>), P("webappId", "number", {}, FALSE, <<>>)>>,
       {"serverId", "webappId"}),
     T("rebuild_webapp",
       <<P("serverId", "number", {}, FALSE, <<>>), P("webappId", "number", {}, FALSE, <<>>)>>,
       {"serverId", "webappId"}),
     T("update_webapp_settings",
       <<P("serverId", "number", {}, FALSE, <<>>),
         P("webappId", "number", {}, FALSE, <<>>),
         P("publicPath", "string", {}, FALSE, <<>>),
         P("stack", "string", {}, FALSE, <<>>),
         P("stackMode", "string", {}, FALSE, <<>>),
         P("clickjackingProtection", "boolean", {}, FALSE, <<>>),
         P("xssProtection", "boolean", {}, FALSE, <<>>),
         P("mimeSniffingProtection", "boolean", {}, FALSE, <<>>)>>,
       {"serverId", "webappId"}),
     T("change_webapp_php_version",
       <<P("serverId", "number", {}, FALSE, <<>>),
         P("webappId", "number", {}, FALSE, <<>>),
         P("phpVersion", "string", {}, FALSE, <<>>)>>,
       {"serverId", "webappId", "phpVersion"}),
     T("create_webapp_alias",
       <<P("serverId", "number", {}, FALSE, <<>>),
         P("webappId", "number", {}, FALSE, <<>>),
         P("name", "string", {}, FALSE, <<>>),
         P("domainName", "string", {}, FALSE, <<>>),
         P("user", "number", {}, FALSE, <<>>),
         P("publicPath", "string", {}, FALSE, <<>>),
         P("phpVersion", "string", {}, FALSE, <<>>),
         P("stack", "string", {}, FALSE, <<>>),
         P("stackMode", "string", {}, FALSE, <<>>),
         P("clickjackingProtection", "boolean", {}, FALSE, <<>>),
         P("xssProtection", "boolean", {}, FALSE, <<>>),
         P("mimeSniffingProtection", "boolean", {}, FALSE, <<>>),
         P("processManager", "string", {}, FALSE, <<>>),
         P("processManagerMaxChildren", "number", {}, FALSE, <<>>),
         P("processManagerMaxRequests", "number", {}, FALSE, <<>>),
         P("processManagerStartServers", "number", {}, FALSE, <<>>),
         P("processManagerMinSpareServers", "number", {}, FALSE, <<>>),
         P("processManagerMaxSpareServers", "number", {}, FALSE, <<>>),
         P("openBasedir", "string", {}, FALSE, <<>>),
         P("timezone", "string", {}, FALSE, <<>>),
         P("disableFunctions", "string", {}, FALSE, <<>>),
         P("maxExecutionTime", "number", {}, FALSE, <<>>),
         P("maxInputTime", "number", {}, FALSE, <<>>),
         P("maxInputVars", "number", {}, FALSE, <<>>),
         P("memoryLimit", "number", {}, FALSE, <<>>),
         P("postMaxSize", "number", {}, FALSE, <<>>),
         P("uploadMaxFilesize", "number", {}, FALSE, <<>>),
         P("sessionGcMaxlifetime", "number", {}, FALSE, <<>>),
         P("allowUrlFopen", "boolean", {}, FALSE, <<>>)>>,
       {"serverId", "webappId", "name", "domainName", "user"}),
     T("clone_git_repository",
       <<P("serverId", "number", {}, FALSE, <<>>),
         P("webappId", "number", {}, FALSE, <<>>),
         P("provider", "string", {}, FALSE, <<>>),
         P("repository", "string", {}, FALSE, <<>>),
         P("branch", "string", {}, FALSE, <<>>),
         P("autoDeploy", "boolean", {}, FALSE, <<>>),
         P("deployKey", "string", {}, FALSE, <<>>)>>,
       {"serverId", "webappId", "provider", "repository", "branch"}),
     T("get_git_info",
       <<P("serverId", "number", {}, FALSE, <<>>), P("webappId", "number", {}, FALSE, <<>>)>>,
       {"serverId", "webappId"}),
     T("change_git_branch",
       <<P("serverId", "number", {}, FALSE, <<>>),
         P("webappId", "number", {}, FALSE, <<>>),
         P("gitId", "number", {}, FALSE, <<>>),
         P("branch", "string", {}, FALSE, <<>>)>>,
       {"serverId", "webappId", "gitId", "branch"}),
     T("deploy_git",
       <<P("serverId", "number", {}, FALSE, <<>>),
         P("webappId", "number", {}, FALSE, <<>>),
         P("gitId", "number", {}, FALSE, <<>>)>>,
       {"serverId", "webappId", "gitId"}),
     T("update_git_deployment_script",
       <<P("serverId", "number", {}, FALSE, <<>>),
         P("webappId", "number", {}, FALSE, <<>>),
         P("gitId", "number", {}, FALSE, <<>>),
         P("autoDeploy", "boolean", {}, FALSE, <<>>),
         P("deployScript", "string", {}, FALSE, <<>>)>>,
       {"serverId", "webappId", "gitId"}),
     T("delete_git_repository",
       <<P("serverId", "number", {}, FALSE, <<>>),
         P("webappId", "number", {}, FALSE, <<>>),
         P("gitId", "number", {}, FALSE, <<>>)>>,
       {"serverId", "webappId", "gitId"}),
     T("list_domains",
       <<P("serverId", "number", {}, FALSE, <<>>), P("webappId", "number", {}, FALSE, <<>>)>>,
       {"serverId", "webappId"}),
     T("get_domain",
       <<P("serverId", "number", {}, FALSE, <<>>),
         P("webappId", "number", {}, FALSE, <<>>),
         P("domainId", "number", {}, FALSE, <<>>)>>,
       {"serverId", "webappId", "domainId"}),
     T("add_domain",
       <<P("serverId", "number", {}, FALSE, <<>>),
         P("webappId", "number", {}, FALSE, <<>>),
         P("name", "string", {}, FALSE, <<>>)>>,
       {"serverId", "webappId", "name"}),
     T("delete_domain",
       <<P("serverId", "number", {}, FALSE, <<>>),
         P("webappId", "number", {}, FALSE, <<>>),
         P("domainId", "number", {}, FALSE, <<>>)>>,
       {"serverId", "webappId", "domainId"}),
     T("get_ssl_info",
       <<P("serverId", "number", {}, FALSE, <<>>), P("webappId", "number", {}, FALSE, <<>>)>>,
       {"serverId", "webappId"}),
     T("install_ssl",
       <<P("serverId", "number", {}, FALSE, <<>>),
         P("webappId", "number", {}, FALSE, <<>>),
         P("provider", "string", {}, FALSE, <<>>),
         P("hsts", "boolean", {}, FALSE, <<>>),
         P("http", "boolean", {}, FALSE, <<>>),
         P("ssl_protocol_id", "number", {}, FALSE, <<>>),
         P("privateKey", "string", {}, FALSE, <<>>),
         P("certificate", "string", {}, FALSE, <<>>),
         P("certificateChain", "string", {}, FALSE, <<>>)>>,
       {"serverId", "webappId", "provider"}),
     T("update_ssl",
       <<P("serverId", "number", {}, FALSE, <<>>),
         P("webappId", "number", {}, FALSE, <<>>),
         P("sslId", "number", {}, FALSE, <<>>),
         P("hsts", "boolean", {}, FALSE, <<>>),
         P("http", "boolean", {}, FALSE, <<>>),
         P("ssl_protocol_id", "number", {}, FALSE, <<>>),
         P("privateKey", "string", {}, FALSE, <<>>),
         P("certificate", "string", {}, FALSE, <<>>),
         P("certificateChain", "string", {}, FALSE, <<>>)>>,
       {"serverId", "webappId", "sslId"}),
     T("redeploy_ssl",
       <<P("serverId", "number", {}, FALSE, <<>>),
         P("webappId", "number", {}, FALSE, <<>>),
         P("sslId", "number", {}, FALSE, <<>>)>>,
       {"serverId", "webappId", "sslId"}),
     T("delete_ssl",
       <<P("serverId", "number", {}, FALSE, <<>>),
         P("webappId", "number", {}, FALSE, <<>>),
         P("sslId", "number", {}, FALSE, <<>>)>>,
       {"serverId", "webappId", "sslId"}),
     T("get_advanced_ssl_status",
       <<P("serverId", "number", {}, FALSE, <<>>), P("webappId", "number", {}, FALSE, <<>>)>>,
       {"serverId", "webappId"}),
     T("switch_ssl_mode",
       <<P("serverId", "number", {}, FALSE, <<>>),
         P("webappId", "number", {}, FALSE, <<>>),
         P("advancedSSL", "boolean", {}, FALSE, <<>>),
         P("autoSSL", "boolean", {}, FALSE, <<>>)>>,
       {"serverId", "webappId", "advancedSSL"}),
     T("install_domain_ssl",
       <<P("serverId", "number", {}, FALSE, <<>>),
         P("webappId", "number", {}, FALSE, <<>>),
         P("domainId", "number", {}, FALSE, <<>>),
         P("provider", "string", {}, FALSE, <<>>),
         P("privateKey", "string", {}, FALSE, <<>>),
         P("certificate", "string", {}, FALSE, <<>>),
         P("certificateChain", "string", {}, FALSE, <<>>)>>,
       {"serverId", "webappId", "domainId", "provider"}),
     T("get_domain_ssl_info",
       <<P("serverId", "number", {}, FALSE, <<>>),
         P("webappId", "number", {}, FALSE, <<>>),
         P("domainId", "number", {}, FALSE, <<>>)>>,
       {"serverId", "webappId", "domainId"}),
     T("update_domain_ssl",
       <<P("serverId", "number", {}, FALSE, <<>>),
         P("webappId", "number", {}, FALSE, <<>>),
         P("domainId", "number", {}, FALSE, <<>>),
         P("sslId", "number", {}, FALSE, <<>>),
         P("privateKey", "string", {}, FALSE, <<>>),
         P("certificate", "string", {}, FALSE, <<>>),
         P("certificateChain", "string", {}, FALSE, <<>>)>>,
       {"serverId", "webappId", "domainId", "sslId"}),
     T("redeploy_domain_ssl",
       <<P("serverId", "number", {}, FALSE, <<>>),
         P("webappId", "number", {}, FALSE, <<>>),
         P("domainId", "number", {}, FALSE, <<>>),
         P("sslId", "number", {}, FALSE, <<>>)>>,
       {"serverId", "webappId", "domainId", "sslId"}),
     T("delete_domain_ssl",
       <<P("serverId", "number", {}, FALSE, <<>>),
         P("webappId", "number", {}, FALSE, <<>>),
         P("domainId", "number", {}, FALSE, <<>>),
         P("sslId", "number", {}, FALSE, <<>>)>>,
       {"serverId", "webappId", "domainId", "sslId"}),
     T("list_databases",
       <<P("serverId", "number", {}, FALSE, <<>>),
         P("search", "string", {}, FALSE, <<>>),
         P("page", "number", {}, FALSE, <<>>)>>,
       {"serverId"}),
     T("create_database",
       <<P("serverId", "number", {}, FALSE, <<>>),
         P("name", "string", {}, FALSE, <<>>),
         P("collation", "string", {}, FALSE, <<>>)>>,
       {"serverId", "name"}),
     T("delete_database",
       <<P("serverId", "number", {}, FALSE, <<>>), P("databaseId", "number", {}, FALSE, <<>>)>>,
       {"serverId", "databaseId"}),
     T("list_database_users",
       <<P("serverId", "number", {}, FALSE, <<>>),
         P("search", "string", {}, FALSE, <<>>),
         P("page", "number", {}, FALSE, <<>>)>>,
       {"serverId"}),
     T("create_database_user",
       <<P("serverId", "number", {}, FALSE, <<>>),
         P("username", "string", {}, FALSE, <<>>),
         P("password", "string", {}, FALSE, <<>>)>>,
       {"serverId", "username", "password"}),
     T("delete_database_user",
       <<P("serverId", "number", {}, FALSE, <<>>), P("userId", "number", {}, FALSE, <<>>)>>,
       {"serverId", "userId"}),
     T("update_database_user_password",
       <<P("serverId", "number", {}, FALSE, <<>>),
         P("userId", "number", {}, FALSE, <<>>),
         P("password", "string", {}, FALSE, <<>>)>>,
       {"serverId", "userId", "password"}),
     T("grant_database_access",
       <<P("serverId", "number", {}, FALSE, <<>>),
         P("userId", "number", {}, FALSE, <<>>),
         P("databaseId", "number", {}, FALSE, <<>>)>>,
       {"serverId", "userId", "databaseId"}),
     T("revoke_database_access",
       <<P("serverId", "number", {}, FALSE, <<>>),
         P("userId", "number", {}, FALSE, <<>>),
         P("databaseId", "number", {}, FALSE, <<>>)>>,
       {"serverId", "userId", "databaseId"}),
     T("list_system_users",
       <<P("serverId", "number", {}, FALSE, <<>>),
         P("search", "string", {}, FALSE, <<>>),
         P("page", "number", {}, FALSE, <<>>)>>,
       {"serverId"}),
     T("create_system_user",
       <<P("serverId", "number", {}, FALSE, <<>>),
         P("username", "string", {}, FALSE, <<>>),
         P("password", "string", {}, FALSE, <<>>)>>,
       {"serverId", "username", "password"}),
     T("delete_system_user",
       <<P("serverId", "number", {}, FALSE, <<>>), P("userId", "number", {}, FALSE, <<>>)>>,
       {"serverId", "userId"}),
     T("update_system_user_password",
       <<P("serverId", "number", {}, FALSE, <<>>),
         P("userId", "number", {}, FALSE, <<>>),
         P("password", "string", {}, FALSE, <<>>)>>,
       {"serverId", "userId", "password"}),
     T("list_ssh_keys",
       <<P("serverId", "number", {}, FALSE, <<>>), P("userId", "number", {}, FALSE, <<>>)>>,
       {"serverId", "userId"}),
     T("add_ssh_key",
       <<P("serverId", "number", {}, FALSE, <<>>),
         P("userId", "number", {}, FALSE, <<>>),
         P("label", "string", {}, FALSE, <<>>),
         P("publicKey", "string", {}, FALSE, <<>>)>>,
       {"serverId", "userId", "label", "publicKey"}),
     T("delete_ssh_key",
       <<P("serverId", "number", {}, FALSE, <<>>),
         P("userId", "number", {}, FALSE, <<>>),
         P("keyId", "number", {}, FALSE, <<>>)>>,
       {"serverId", "userId", "keyId"}),
     T("list_cron_jobs",
       <<P("serverId", "number", {}, FALSE, <<>>), P("webappId", "number", {}, FALSE, <<>>)>>,
       {"serverId", "webappId"}),
     T("create_cron_job",
       <<P("serverId", "number", {}, FALSE, <<>>),
         P("webappId", "number", {}, FALSE, <<>>),
         P("label", "string", {}, FALSE, <<>>),
         P("command", "string", {}, FALSE, <<>>),
         P("user", "string", {}, FALSE, <<>>),
         P("cronExpression", "string", {}, FALSE, <<>>)>>,
       {"serverId", "webappId", "label", "command", "user", "cronExpression"}),
     T("delete_cron_job",
       <<P("serverId", "number", {}, FALSE, <<>>),
         P("webappId", "number", {}, FALSE, <<>>),
         P("cronId", "number", {}, FALSE, <<>>)>>,
       {"serverId", "webappId", "cronId"}),
     T("list_services",
       <<P("serverId", "number", {}, FALSE, <<>>)>>,
       {"serverId"}),
     T("control_service",
       <<P("serverId", "number", {}, FALSE, <<>>),
         P("serviceName", "string", {}, FALSE, <<>>),
         P("action", "string", {}, FALSE, <<>>)>>,
       {"serverId", "serviceName", "action"}),
     T("list_supervisor_jobs",
       <<P("serverId", "number", {}, FALSE, <<>>)>>,
       {"serverId"}),
     T("create_supervisor_job",
       <<P("serverId", "number", {}, FALSE, <<>>),
         P("jobName", "string", {}, FALSE, <<>>),
         P("user", "string", {}, FALSE, <<>>),
         P("command", "string", {}, FALSE, <<>>),
         P("directory", "string", {}, FALSE, <<>>),
         P("processCount", "number", {}, FALSE, <<>>),
         P("autoStart", "boolean", {}, FALSE, <<>>),
         P("autoRestart", "boolean", {}, FALSE, <<>>)>>,
       {"serverId", "jobName", "user", "command"}),
     T("delete_supervisor_job",
       <<P("serverId", "number", {}, FALSE, <<>>), P("jobId", "number", {}, FALSE, <<>>)>>,
       {"serverId", "jobId"}),
     T("control_supervisor_job",
       <<P("serverId", "number", {}, FALSE, <<>>),
         P("jobId", "number", {}, FALSE, <<>>),
         P("action", "string", {}, FALSE, <<>>)>>,
       {"serverId", "jobId", "action"}),
     T("get_server_logs",
       <<P("serverId", "number", {}, FALSE, <<>>),
         P("type", "string", {}, FALSE, <<>>),
         P("lines", "number", {}, FALSE, <<>>)>>,
       {"serverId", "type"}),
     T("get_webapp_logs",
       <<P("serverId", "number", {}, FALSE, <<>>),
         P("webappId", "number", {}, FALSE, <<>>),
         P("type", "string", {}, FALSE, <<>>),
         P("lines", "number", {}, FALSE, <<>>)>>,
       {"serverId", "webappId", "type"}),
     T("get_installed_script",
       <<P("serverId", "number", {}, FALSE, <<>>), P("webappId", "number", {}, FALSE, <<>>)>>,
       {"serverId", "webappId"}),
     T("remove_installed_script",
       <<P("serverId", "number", {}, FALSE, <<>>),
         P("webappId", "number", {}, FALSE, <<>>),
         P("installerId", "number", {}, FALSE, <<>>)>>,
       {"serverId", "webappId", "installerId"}),
     T("install_script",
       <<P("serverId", "number", {}, FALSE, <<>>),
         P("webappId", "number", {}, FALSE, <<>>),
         P("installerId", "number", {}, FALSE, <<>>),
         P("admin_username", "string", {}, FALSE, <<>>),
         P("admin_email", "string", {}, FALSE, <<>>),
         P("admin_password", "string", {}, FALSE, <<>>),
         P("site_title", "string", {}, FALSE, <<>>),
         P("language", "string", {}, FALSE, <<>>)>>,
       {"serverId", "webappId", "installerId"}),
     T("create_firewall_rule",
       <<P("serverId", "number", {}, FALSE, <<>>),
         P("type", "string", {}, FALSE, <<>>),
         P("port", "number", {}, FALSE, <<>>),
         P("protocol", "string", {}, FALSE, <<>>),
         P("ipAddress", "string", {}, FALSE, <<>>),
         P("firewallAction", "string", {}, FALSE, <<>>)>>,
       {"serverId", "type"}),
     T("list_firewall_rules",
       <<P("serverId", "number", {}, FALSE, <<>>)>>,
       {"serverId"}),
     T("get_firewall_rule",
       <<P("serverId", "number", {}, FALSE, <<>>), P("firewallId", "number", {}, FALSE, <<>>)>>,
       {"serverId", "firewallId"}),
     T("deploy_firewall_rules",
       <<P("serverId", "number", {}, FALSE, <<>>)>>,
       {"serverId"}),
     T("delete_firewall_rule",
       <<P("serverId", "number", {}, FALSE, <<>>), P("firewallId", "number", {}, FALSE, <<>>)>>,
       {"serverId", "firewallId"}),
     T("list_blocked_ips",
       <<P("serverId", "number", {}, FALSE, <<>>)>>,
       {"serverId"}),
     T("unblock_ip",
       <<P("serverId", "number", {}, FALSE, <<>>), P("ip", "string", {}, FALSE, <<>>)>>,
       {"serverId", "ip"}),
     T("list_database_collations",
       <<>>,
       {}),
     T("list_timezones",
       <<>>,
       {}),
     T("list_script_installers",
       <<>>,
       {}),
     T("list_ssl_protocols",
       <<P("webServer", "string", {}, FALSE, <<>>)>>,
       {"webServer"}),
     T("create_external_api_key",
       <<P("label", "string", {}, FALSE, <<>>),
         P("service", "string", {}, FALSE, <<>>),
         P("username", "string", {}, FALSE, <<>>),
         P("secret", "string", {}, FALSE, <<>>)>>,
       {"label", "service", "secret"}),
     T("list_external_api_keys",
       <<P("search", "string", {}, FALSE, <<>>)>>,
       {}),
     T("get_external_api_key",
       <<P("apiId", "number", {}, FALSE, <<>>)>>,
       {"apiId"}),
     T("update_external_api_key",
       <<P("apiId", "number", {}, FALSE, <<>>),
         P("label", "string", {}, FALSE, <<>>),
         P("username", "string", {}, FALSE, <<>>),
         P("secret", "string", {}, FALSE, <<>>)>>,
       {"apiId"}),
     T("delete_external_api_key",
       <<P("apiId", "number", {}, FALSE, <<>>)>>,
       {"apiId"}),
     T("health_check",
       <<>>,
       {})
  >>

FullSwitch(name) ==
  CASE name = "list_servers" -> "listServers"
    [] name = "get_server" -> "getServer"
    [] name = "create_server" -> "createServer"
    [] name = "delete_server" -> "deleteServer"
    [] name = "get_server_stats" -> "getServerStats"
    [] name = "get_server_hardware_info" -> "getServerHardwareInfo"
    [] name = "get_installation_script" -> "getInstallationScript"
    [] name = "get_ssh_settings" -> "getSshSettings"
    [] name = "update_ssh_settings" -> "updateSshSettings"
    [] name = "update_server_metadata" -> "updateServerMetadata"
    [] name = "update_server_autoupdate" -> "updateServerAutoupdate"
    [] name = "list_php_versions" -> "listPhpVersions"
    [] name = "change_php_cli_version" -> "changePhpCliVersion"
    [] name = "list_shared_servers" -> "listSharedServers"
    [] name = "list_webapps" -> "listWebapps"
    [] name = "get_webapp" -> "getWebapp"
    [] name = "create_webapp" -> "createWebapp"
    [] name = "delete_webapp" -> "deleteWebapp"
    [] name = "set_webapp_default" -> "setWebappDefault"
    [] name = "remove_webapp_default" -> "removeWebappDefault"
    [] name = "rebuild_webapp" -> "rebuildWebapp"
    [] name = "update_webapp_settings" -> "updateWebappSettings"
    [] name = "change_webapp_php_version" -> "changeWebappPhpVersion"
    [] name = "create_webapp_alias" -> "createWebappAlias"
    [] name = "clone_git_repository" -> "cloneGitRepository"
    [] name = "get_git_info" -> "getGitInfo"
    [] name = "change_git_branch" -> "changeGitBranch"
    [] name = "deploy_git" -> "deployGit"
    [] name = "update_git_deployment_script" -> "updateGitDeploymentScript"
    [] name = "delete_git_repository" -> "deleteGitRepository"
    [] name = "list_domains" -> "listDomains"
    [] name = "get_domain" -> "getDomain"
    [] name = "add_domain" -> "addDomain"
    [] name = "delete_domain" -> "deleteDomain"
    [] name = "get_ssl_info" -> "getSslInfo"
    [] name = "install_ssl" -> "installSsl"
    [] name = "update_ssl" -> "updateSsl"
    [] name = "redeploy_ssl" -> "redeploySsl"
    [] name = "delete_ssl" -> "deleteSsl"
    [] name = "get_advanced_ssl_status" -> "getAdvancedSslStatus"
    [] name = "switch_ssl_mode" -> "switchSslMode"
    [] name = "install_domain_ssl" -> "installDomainSsl"
    [] name = "get_domain_ssl_info" -> "getDomainSslInfo"
    [] name = "update_domain_ssl" -> "updateDomainSsl"
    [] name = "redeploy_domain_ssl" -> "redeployDomainSsl"
    [] name = "delete_domain_ssl" -> "deleteDomainSsl"
    [] name = "list_databases" -> "listDatabases"
    [] name = "create_database" -> "createDatabase"
    [] name = "delete_database" -> "deleteDatabase"
    [] name = "list_database_users" -> "listDatabaseUsers"
    [] name = "create_database_user" -> "createDatabaseUser"
    [] name = "delete_database_user" -> "deleteDatabaseUser"
    [] name = "update_database_user_password" -> "updateDatabaseUserPassword"
    [] name = "grant_database_access" -> "grantDatabaseAccess"
    [] name = "revoke_database_access" -> "revokeDatabaseAccess"
    [] name = "list_system_users" -> "listSystemUsers"
    [] name = "create_system_user" -> "createSystemUser"
    [] name = "delete_system_user" -> "deleteSystemUser"
    [] name = "update_system_user_password" -> "updateSystemUserPassword"
    [] name = "list_ssh_keys" -> "listSshKeys"
    [] name = "add_ssh_key" -> "addSshKey"
    [] name = "delete_ssh_key" -> "deleteSshKey"
    [] name = "list_cron_jobs" -> "listCronJobs"
    [] name = "create_cron_job" -> "createCronJob"
    [] name = "delete_cron_job" -> "deleteCronJob"
    [] name = "list_services" -> "listServices"
    [] name = "control_service" -> "controlService"
    [] name = "list_supervisor_jobs" -> "listSupervisorJobs"
    [] name = "create_supervisor_job" -> "createSupervisorJob"
    [] name = "delete_supervisor_job" -> "deleteSupervisorJob"
    [] name = "control_supervisor_job" -> "controlSupervisorJob"
    [] name = "get_server_logs" -> "getServerLogs"
    [] name = "get_webapp_logs" -> "getWebappLogs"
    [] name = "get_installed_script" -> "getInstalledScript"
    [] name = "remove_installed_script" -> "removeInstalledScript"
    [] name = "install_script" -> "installScript"
    [] name = "create_firewall_rule" -> "createFirewallRule"
    [] name = "list_firewall_rules" -> "listFirewallRules"
    [] name = "get_firewall_rule" -> "getFirewallRule"
    [] name = "deploy_firewall_rules" -> "deployFirewallRules"
    [] name = "delete_firewall_rule" -> "deleteFirewallRule"
    [] name = "list_blocked_ips" -> "listBlockedIps"
    [] name = "unblock_ip" -> "unblockIp"
    [] name = "list_database_collations" -> "listDatabaseCollations"
    [] name = "list_timezones" -> "listTimezones"
    [] name = "list_script_installers" -> "listScriptInstallers"
    [] name = "list_ssl_protocols" -> "listSslProtocols"
    [] name = "create_external_api_key" -> "createExternalApiKey"
    [] name = "list_external_api_keys" -> "listExternalApiKeys"
    [] name = "get_external_api_key" -> "getExternalApiKey"
    [] name = "update_external_api_key" -> "updateExternalApiKey"
    [] name = "delete_external_api_key" -> "deleteExternalApiKey"
    [] name = "health_check" -> "healthCheck"
    [] OTHER -> "default"

FullHandler(h) ==
  CASE h = "listServers" ->
       H(TRUE, "GET", <<L(<<"/", "servers">>)>>,
         <<R("search", "search", "ifTruthy", JsUndefined, NoGuard),
             R("page", "page", "ifTruthy", JsUndefined, NoGuard)>>,
         FALSE, <<>>)
    [] h = "getServer" ->
       H(TRUE, "GET", <<L(<<"/", "servers", "/">>), A("serverId")>>,
         <<>>,
         FALSE, <<>>)
    [] h = "createServer" ->
       H(TRUE, "POST", <<L(<<"/", "servers">>)>>,
         <<>>,
         TRUE, <<R("name", "name", "copy", JsUndefined, NoGuard),
             R("ipAddress", "ipAddress", "copy", JsUndefined, NoGuard),
             R("provider", "provider", "or", JsStr(<<"custom">>), NoGuard)>>)
    [] h = "deleteServer" ->
       H(TRUE, "DELETE", <<L(<<"/", "servers", "/">>), A("serverId")>>,
         <<>>,
         FALSE, <<>>)
    [] h = "getServerStats" ->
       H(TRUE, "GET", <<L(<<"/", "servers", "/">>), A("serverId"), L(<<"/", "stats">>)>>,
         <<>>,
         FALSE, <<>>)
    [] h = "getServerHardwareInfo" ->
       H(TRUE, "GET", <<L(<<"/", "servers", "/">>), A("serverId"), L(<<"/", "hardwareInfo">>)>>,
         <<>>,
         FALSE, <<>>)
    [] h = "getInstallationScript" ->
       H(TRUE, "GET", <<L(<<"/", "servers", "/">>), A("serverId"), L(<<"/", "installationScript">>)>>,
         <<>>,
         FALSE, <<>>)
    [] h = "getSshSettings" ->
       H(TRUE, "GET", <<L(<<"/", "servers", "/">>), A("serverId"), L(<<"/", "settings", "/", "ssh">>)>>,
         <<>>,
         FALSE, <<>>)
    [] h = "updateSshSettings" ->
       H(TRUE, "PATCH", <<L(<<"/", "servers", "/">>), A("serverId"), L(<<"/", "settings", "/", "ssh">>)>>,
         <<>>,
         TRUE, <<R("passwordlessLogin", "passwordlessLogin", "ifDefined", JsUndefined, NoGuard),
             R("useDns", "useDns", "ifDefined", JsUndefined, NoGuard),
             R("preventRootLogin", "preventRootLogin", "ifDefined", JsUndefined, NoGuard)>>)
    [] h = "updateServerMetadata" ->
       H(TRUE, "PATCH", <<L(<<"/", "servers", "/">>), A("serverId"), L(<<"/", "settings", "/", "meta">>)>>,
         <<>>,
         TRUE, <<R("name", "name", "ifTruthy", JsUndefined, NoGuard),
             R("provider", "provider", "ifTruthy", JsUndefined, NoGuard)>>)
    [] h = "updateServerAutoupdate" ->
       H(TRUE, "PATCH", <<L(<<"/", "servers", "/">>), A("serverId"), L(<<"/", "settings", "/", "autoupdate">>)>>,
         <<>>,
         TRUE, <<R("softwareUpdate", "softwareUpdate", "ifDefined", JsUndefined, NoGuard),
             R("securityUpdate", "securityUpdate", "ifDefined", JsUndefined, NoGuard)>>)
    [] h = "listPhpVersions" ->
       H(TRUE, "GET", <<L(<<"/", "servers", "/">>), A("serverId"), L(<<"/", "php", "/", "version">>)>>,
         <<>>,
         FALSE, <<>>)
    [] h = "changePhpCliVersion" ->
       H(TRUE, "PATCH", <<L(<<"/", "servers", "/">>), A("serverId"), L(<<"/", "php", "/", "cli">>)>>,
         <<>>,
         TRUE, <<R("phpVersion", "phpVersion", "copy", JsUndefined, NoGuard)>>)
    [] h = "listSharedServers" ->
       H(TRUE, "GET", <<L(<<"/", "servers", "/", "shared">>)>>,
         <<R("search", "search", "ifTruthy", JsUndefined, NoGuard)>>,
         FALSE, <<>>)
    [] h = "listWebapps" ->
       H(TRUE, "GET", <<L(<<"/", "servers", "/">>), A("serverId"), L(<<"/", "webapps">>)>>,
         <<R("search", "search", "ifTruthy", JsUndefined, NoGuard),
             R("page", "page", "ifTruthy", JsUndefined, NoGuard)>>,
         FALSE, <<>>)
    [] h = "getWebapp" ->
       H(TRUE, "GET", <<L(<<"/", "servers", "/">>), A("serverId"), L(<<"/", "webapps", "/">>), A("webappId")>>,
         <<>>,
         FALSE, <<>>)
    [] h = "createWebapp" ->
       H(TRUE, "POST", <<L(<<"/", "servers", "/">>), A("serverId"), L(<<"/", "webapps", "/", "custom">>)>>,
         <<>>,
         TRUE, <<R("name", "name", "copy", JsUndefined, NoGuard),
             R("domainName", "domainName", "copy", JsUndefined, NoGuard),
             R("user", "user", "copy", JsUndefined, NoGuard),
             R("publicPath", "publicPath", "or", JsStr(<<"/">>), NoGuard),
             R("phpVersion", "phpVersion", "or", JsStr(<<"php74">>), NoGuard),
             R("stack", "stack", "or", JsStr(<<"native">>), NoGuard),
             R("stackMode", "stackMode", "or", JsStr(<<"production">>), NoGuard),
             R("clickjackingProtection", "clickjackingProtection", "notFalse", JsUndefined, NoGuard),
             R("xssProtection", "xssProtection", "notFalse", JsUndefined, NoGuard),
             R("mimeSniffingProtection", "mimeSniffingProtection", "notFalse", JsUndefined, NoGuard),
             R("processManager", "processManager", "or", JsStr(<<"ondemand">>), NoGuard),
             R("processManagerMaxChildren", "processManagerMaxChildren", "or", JsNum("50"), NoGuard),
             R("processManagerMaxRequests", "processManagerMaxRequests", "or", JsNum("500"), NoGuard),
             R("timezone", "timezone", "or", JsStr(<<"UTC">>), NoGuard),
             R("disableFunctions", "disableFunctions", "or", JsStr(<<>>), NoGuard),
             R("maxExecutionTime", "maxExecutionTime", "or", JsNum("30"), NoGuard),
             R("maxInputTime", "maxInputTime", "or", JsNum("60"), NoGuard),
             R("maxInputVars", "maxInputVars", "or", JsNum("1000"), NoGuard),
             R("memoryLimit", "memoryLimit", "or", JsNum("256"), NoGuard),
             R("postMaxSize", "postMaxSize", "or", JsNum("256"), NoGuard),
             R("uploadMaxFilesize", "uploadMaxFilesize", "or", JsNum("256"), NoGuard),
             R("sessionGcMaxlifetime", "sessionGcMaxlifetime", "or", JsNum("1440"), NoGuard),
             R("allowUrlFopen", "allowUrlFopen", "notFalse", JsUndefined, NoGuard),
             R("processManagerStartServers", "processManagerStartServers", "or", JsNum("2"), G("data", "processManager", <<"dynamic">>)),
             R("processManagerMinSpareServers", "processManagerMinSpareServers", "or", JsNum("1"), G("data", "processManager", <<"dynamic">>)),
             R("processManagerMaxSpareServers", "processManagerMaxSpareServers", "or", JsNum("3"), G("data", "processManager", <<"dynamic">>)),
             R("openBasedir", "openBasedir", "ifDefined", JsUndefined, NoGuard)>>)
    [] h = "deleteWebapp" ->
       H(TRUE, "DELETE", <<L(<<"/", "servers", "/">>), A("serverId"), L(<<"/", "webapps", "/">>), A("webappId")>>,
         <<>>,
         FALSE, <<>>)
    [] h = "setWebappDefault" ->
       H(TRUE, "POST", <<L(<<"/", "servers", "/">>), A("serverId"), L(<<"/", "webapps", "/">>), A("webappId"), L(<<"/", "default">>)>>,
         <<>>,
         FALSE, <<>>)
    [] h = "removeWebappDefault" ->
       H(TRUE, "DELETE", <<L(<<"/", "servers", "/">>), A("serverId"), L(<<"/", "webapps", "/">>), A("webappId"), L(<<"/", "default">>)>>,
         <<>>,
         FALSE, <<>>)
    [] h = "rebuildWebapp" ->
       H(TRUE, "POST", <<L(<<"/", "servers", "/">>), A("serverId"), L(<<"/", "webapps", "/">>), A("webappId"), L(<<"/", "rebuild">>)>>,
         <<>>,
         FALSE, <<>>)
    [] h = "updateWebappSettings" ->
       H(TRUE, "PATCH", <<L(<<"/", "servers", "/">>), A("serverId"), L(<<"/", "webapps", "/">>), A("webappId"), L(<<"/", "settings", "/", "fpmnginx">>)>>,
         <<>>,
         TRUE, <<R("publicPath", "publicPath", "ifDefined", JsUndefined, NoGuard),
             R("stack", "stack", "ifTruthy", JsUndefined, NoGuard),
             R("stackMode", "stackMode", "ifTruthy", JsUndefined, NoGuard),
             R("clickjackingProtection", "clickjackingProtection", "ifDefined", JsUndefined, NoGuard),
             R("xssProtection", "xssProtection", "ifDefined", JsUndefined, NoGuard),
             R("mimeSniffingProtection", "mimeSniffingProtection", "ifDefined", JsUndefined, NoGuard)>>)
    [] h = "changeWebappPhpVersion" ->
       H(TRUE, "PATCH", <<L(<<"/", "servers", "/">>), A("serverId"), L(<<"/", "webapps", "/">>), A("webappId"), L(<<"/", "settings", "/", "php">>)>>,
         <<>>,
         TRUE, <<R("phpVersion", "phpVersion", "copy", JsUndefined, NoGuard)>>)
    [] h = "createWebappAlias" ->
       H(TRUE, "POST", <<L(<<"/", "servers", "/">>), A("serverId"), L(<<"/", "webapps", "/">>), A("webappId"), L(<<"/", "alias">>)>>,
         <<>>,
         TRUE, <<R("name", "name", "copy", JsUndefined, NoGuard),
             R("domainName", "domainName", "copy", JsUndefined, NoGuard),
             R("user", "user", "copy", JsUndefined, NoGuard),
             R("publicPath", "publicPath", "or", JsStr(<<"/">>), NoGuard),
             R("phpVersion", "phpVersion", "or", JsStr(<<"php74">>), NoGuard),
             R("stack", "stack", "or", JsStr(<<"native">>), NoGuard),
             R("stackMode", "stackMode", "or", JsStr(<<"production">>), NoGuard),
             R("clickjackingProtection", "clickjackingProtection", "notFalse", JsUndefined, NoGuard),
             R("xssProtection", "xssProtection", "notFalse", JsUndefined, NoGuard),
             R("mimeSniffingProtection", "mimeSniffingProtection", "notFalse", JsUndefined, NoGuard),
             R("processManager", "processManager", "or", JsStr(<<"ondemand">>), NoGuard),
             R("processManagerMaxChildren", "processManagerMaxChildren", "or", JsNum("50"), NoGuard),
             R("processManagerMaxRequests", "processManagerMaxRequests", "or", JsNum("500"), NoGuard),
             R("timezone", "timezone", "or", JsStr(<<"UTC">>), NoGuard),
             R("disableFunctions", "disableFunctions", "or", JsStr(<<>>), NoGuard),
             R("maxExecutionTime", "maxExecutionTime", "or", JsNum("30"), NoGuard),
             R("maxInputTime", "maxInputTime", "or", JsNum("60"), NoGuard),
             R("maxInputVars", "maxInputVars", "or", JsNum("1000"), NoGuard),
             R("memoryLimit", "memoryLimit", "or", JsNum("256"), NoGuard),
             R("postMaxSize", "postMaxSize", "or", JsNum("256"), NoGuard),
             R("uploadMaxFilesize", "uploadMaxFilesize", "or", JsNum("256"), NoGuard),
             R("sessionGcMaxlifetime", "sessionGcMaxlifetime", "or", JsNum("1440"), NoGuard),
             R("allowUrlFopen", "allowUrlFopen", "notFalse", JsUndefined, NoGuard),
             R("processManagerStartServers", "processManagerStartServers", "or", JsNum("2"), G("data", "processManager", <<"dynamic">>)),
             R("processManagerMinSpareServers", "processManagerMinSpareServers", "or", JsNum("1"), G("data", "processManager", <<"dynamic">>)),
             R("processManagerMaxSpareServers", "processManagerMaxSpareServers", "or", JsNum("3"), G("data", "processManager", <<"dynamic">>)),
             R("openBasedir", "openBasedir", "ifDefined", JsUndefined, NoGuard)>>)
    [] h = "cloneGitRepository" ->
       H(TRUE, "POST", <<L(<<"/", "servers", "/">>), A("serverId"), L(<<"/", "webapps", "/">>), A("webappId"), L(<<"/", "git">>)>>,
         <<>>,
         TRUE, <<R("provider", "provider", "copy", JsUndefined, NoGuard),
             R("repository", "repository", "copy", JsUndefined, NoGuard),
             R("branch", "branch", "copy", JsUndefined, NoGuard),
             R("autoDeploy", "autoDeploy", "or", JsBool(FALSE), NoGuard),
             R("deployKey", "deployKey", "ifTruthy", JsUndefined, NoGuard)>>)
    [] h = "getGitInfo" ->
       H(TRUE, "GET", <<L(<<"/", "servers", "/">>), A("serverId"), L(<<"/", "webapps", "/">>), A("webappId"), L(<<"/", "git">>)>>,
         <<>>,
         FALSE, <<>>)
    [] h = "changeGitBranch" ->
       H(TRUE, "PATCH", <<L(<<"/", "servers", "/">>), A("serverId"), L(<<"/", "webapps", "/">>), A("webappId"), L(<<"/", "git", "/">>), A("gitId"), L(<<"/", "branch">>)>>,
         <<>>,
         TRUE, <<R("branch", "branch", "copy", JsUndefined, NoGuard)>>)
    [] h = "deployGit" ->
       H(TRUE, "POST", <<L(<<"/", "servers", "/">>), A("serverId"), L(<<"/", "webapps", "/">>), A("webappId"), L(<<"/", "git", "/">>), A("gitId"), L(<<"/", "deploy">>)>>,
         <<>>,
         FALSE, <<>>)
    [] h = "updateGitDeploymentScript" ->
       H(TRUE, "PATCH", <<L(<<"/", "servers", "/">>), A("serverId"), L(<<"/", "webapps", "/">>), A("webappId"), L(<<"/", "git", "/">>), A("gitId"), L(<<"/", "script">>)>>,
         <<>>,
         TRUE, <<R("autoDeploy", "autoDeploy", "ifDefined", JsUndefined, NoGuard),
             R("deployScript", "deployScript", "ifTruthy", JsUndefined, NoGuard)>>)
    [] h = "deleteGitRepository" ->
       H(TRUE, "DELETE", <<L(<<"/", "servers", "/">>), A("serverId"), L(<<"/", "webapps", "/">>), A("webappId"), L(<<"/", "git", "/">>), A("gitId")>>,
         <<>>,
         FALSE, <<>>)
    [] h = "listDomains" ->
       H(TRUE, "GET", <<L(<<"/", "servers", "/">>), A("serverId"), L(<<"/", "webapps", "/">>), A("webappId"), L(<<"/", "domains">>)>>,
         <<>>,
         FALSE, <<>>)
    [] h = "getDomain" ->
       H(TRUE, "GET", <<L(<<"/", "servers", "/">>), A("serverId"), L(<<"/", "webapps", "/">>), A("webappId"), L(<<"/", "domains", "/">>), A("domainId")>>,
         <<>>,
         FALSE, <<>>)
    [] h = "addDomain" ->
       H(TRUE, "POST", <<L(<<"/", "servers", "/">>), A("serverId"), L(<<"/", "webapps", "/">>), A("webappId"), L(<<"/", "domains">>)>>,
         <<>>,
         TRUE, <<R("name", "name", "copy", JsUndefined, NoGuard)>>)
    [] h = "deleteDomain" ->
       H(TRUE, "DELETE", <<L(<<"/", "servers", "/">>), A("serverId"), L(<<"/", "webapps", "/">>), A("webappId"), L(<<"/", "domains", "/">>), A("domainId")>>,
         <<>>,
         FALSE, <<>>)
    [] h = "getSslInfo" ->
       H(TRUE, "GET", <<L(<<"/", "servers", "/">>), A("serverId"), L(<<"/", "webapps", "/">>), A("webappId"), L(<<"/", "ssl">>)>>,
         <<>>,
         FALSE, <<>>)
    [] h = "installSsl" ->
       H(TRUE, "POST", <<L(<<"/", "servers", "/">>), A("serverId"), L(<<"/", "webapps", "/">>), A("webappId"), L(<<"/", "ssl">>)>>,
         <<>>,
         TRUE, <<R("provider", "provider", "copy", JsUndefined, NoGuard),
             R("hsts", "hsts", "notFalse", JsUndefined, NoGuard),
             R("http", "http", "notFalse", JsUndefined, NoGuard),
             R("ssl_protocol_id", "ssl_protocol_id", "ifTruthy", JsUndefined, NoGuard),
             R("privateKey", "privateKey", "copy", JsUndefined, G("args", "provider", <<"custom">>)),
             R("certificate", "certificate", "copy", JsUndefined, G("args", "provider", <<"custom">>)),
             R("certificateChain", "certificateChain", "ifTruthy", JsUndefined, G("args", "provider", <<"custom">>))>>)
    [] h = "updateSsl" ->
       H(TRUE, "PATCH", <<L(<<"/", "servers", "/">>), A("serverId"), L(<<"/", "webapps", "/">>), A("webappId"), L(<<"/", "ssl", "/">>), A("sslId")>>,
         <<>>,
         TRUE, <<R("hsts", "hsts", "ifDefined", JsUndefined, NoGuard),
             R("http", "http", "ifDefined", JsUndefined, NoGuard),
             R("ssl_protocol_id", "ssl_protocol_id", "ifTruthy", JsUndefined, NoGuard),
             R("privateKey", "privateKey", "ifTruthy", JsUndefined, NoGuard),
             R("certificate", "certificate", "ifTruthy", JsUndefined, NoGuard),
             R("certificateChain", "certificateChain", "ifTruthy", JsUndefined, NoGuard)>>)
    [] h = "redeploySsl" ->
       H(TRUE, "PUT", <<L(<<"/", "servers", "/">>), A("serverId"), L(<<"/", "webapps", "/">>), A("webappId"), L(<<"/", "ssl", "/">>), A("sslId")>>,
         <<>>,
         FALSE, <<>>)
    [] h = "deleteSsl" ->
       H(TRUE, "DELETE", <<L(<<"/", "servers", "/">>), A("serverId"), L(<<"/", "webapps", "/">>), A("webappId"), L(<<"/", "ssl", "/">>), A("sslId")>>,
         <<>>,
         FALSE, <<>>)
    [] h = "getAdvancedSslStatus" ->
       H(TRUE, "GET", <<L(<<"/", "servers", "/">>), A("serverId"), L(<<"/", "webapps", "/">>), A("webappId"), L(<<"/", "ssl", "/", "advanced">>)>>,
         <<>>,
         FALSE, <<>>)
    [] h = "switchSslMode" ->
       H(TRUE, "POST", <<L(<<"/", "servers", "/">>), A("serverId"), L(<<"/", "webapps", "/">>), A("webappId"), L(<<"/", "ssl", "/", "advanced">>)>>,
         <<>>,
         TRUE, <<R("advancedSSL", "advancedSSL", "copy", JsUndefined, NoGuard),
             R("autoSSL", "autoSSL", "or", JsBool(FALSE), NoGuard)>>)
    [] h = "installDomainSsl" ->
       H(TRUE, "POST", <<L(<<"/", "servers", "/">>), A("serverId"), L(<<"/", "webapps", "/">>), A("webappId"), L(<<"/", "domains", "/">>), A("domainId"), L(<<"/", "ssl", "/", "advanced">>)>>,
         <<>>,
         TRUE, <<R("provider", "provider", "copy", JsUndefined, NoGuard),
             R("privateKey", "privateKey", "copy", JsUndefined, G("args", "provider", <<"custom">>)),
             R("certificate", "certificate", "copy", JsUndefined, G("args", "provider", <<"custom">>)),
             R("certificateChain", "certificateChain", "ifTruthy", JsUndefined, G("args", "provider", <<"custom">>))>>)
    [] h = "getDomainSslInfo" ->
       H(TRUE, "GET", <<L(<<"/", "servers", "/">>), A("serverId"), L(<<"/", "webapps", "/">>), A("webappId"), L(<<"/", "domains", "/">>), A("domainId"), L(<<"/", "ssl", "/", "advanced">>)>>,
         <<>>,
         FALSE, <<>>)
    [] h = "updateDomainSsl" ->
       H(TRUE, "PATCH", <<L(<<"/", "servers", "/">>), A("serverId"), L(<<"/", "webapps", "/">>), A("webappId"), L(<<"/", "domains", "/">>), A("domainId"), L(<<"/", "ssl", "/">>), A("sslId")>>,
         <<>>,
         TRUE, <<R("privateKey", "privateKey", "ifTruthy", JsUndefined, NoGuard),
             R("certificate", "certificate", "ifTruthy", JsUndefined, NoGuard),
             R("certificateChain", "certificateChain", "ifTruthy", JsUndefined, NoGuard)>>)
    [] h = "redeployDomainSsl" ->
       H(TRUE, "PUT", <<L(<<"/", "servers", "/">>), A("serverId"), L(<<"/", "webapps", "/">>), A("webappId"), L(<<"/", "domains", "/">>), A("domainId"), L(<<"/", "ssl", "/">>), A("sslId")>>,
         <<>>,
         FALSE, <<>>)
    [] h = "deleteDomainSsl" ->
       H(TRUE, "DELETE", <<L(<<"/", "servers", "/">>), A("serverId"), L(<<"/", "webapps", "/">>), A("webappId"), L(<<"/", "domains", "/">>), A("domainId"), L(<<"/", "ssl", "/">>), A("sslId")>>,
         <<>>,
         FALSE, <<>>)
    [] h = "listDatabases" ->
       H(TRUE, "GET", <<L(<<"/", "servers", "/">>), A("serverId"), L(<<"/", "databases">>)>>,
         <<R("search", "search", "ifTruthy", JsUndefined, NoGuard),
             R("page", "page", "ifTruthy", JsUndefined, NoGuard)>>,
         FALSE, <<>>)
    [] h = "createDatabase" ->
       H(TRUE, "POST", <<L(<<"/", "servers", "/">>), A("serverId"), L(<<"/", "databases">>)>>,
         <<>>,
         TRUE, <<R("name", "name", "copy", JsUndefined, NoGuard),
             R("collation", "collation", "or", JsStr(<<"utf8mb4_general_ci">>), NoGuard)>>)
    [] h = "deleteDatabase" ->
       H(TRUE, "DELETE", <<L(<<"/", "servers", "/">>), A("serverId"), L(<<"/", "databases", "/">>), A("databaseId")>>,
         <<>>,
         FALSE, <<>>)
    [] h = "listDatabaseUsers" ->
       H(TRUE, "GET", <<L(<<"/", "servers", "/">>), A("serverId"), L(<<"/", "databaseusers">>)>>,
         <<R("search", "search", "ifTruthy", JsUndefined, NoGuard),
             R("page", "page", "ifTruthy", JsUndefined, NoGuard)>>,
         FALSE, <<>>)
    [] h = "createDatabaseUser" ->
       H(TRUE, "POST", <<L(<<"/", "servers", "/">>), A("serverId"), L(<<"/", "databaseusers">>)>>,
         <<>>,
         TRUE, <<R("username", "username", "copy", JsUndefined, NoGuard),
             R("password", "password", "copy", JsUndefined, NoGuard)>>)
    [] h = "deleteDatabaseUser" ->
       H(TRUE, "DELETE", <<L(<<"/", "servers", "/">>), A("serverId"), L(<<"/", "databaseusers", "/">>), A("userId")>>,
         <<>>,
         FALSE, <<>>)
    [] h = "updateDatabaseUserPassword" ->
       H(TRUE, "PATCH", <<L(<<"/", "servers", "/">>), A("serverId"), L(<<"/", "databaseusers", "/">>), A("userId")>>,
         <<>>,
         TRUE, <<R("password", "password", "copy", JsUndefined, NoGuard)>>)
    [] h = "grantDatabaseAccess" ->
       H(TRUE, "POST", <<L(<<"/", "servers", "/">>), A("serverId"), L(<<"/", "databaseusers", "/">>), A("userId"), L(<<"/", "grant">>)>>,
         <<>>,
         TRUE, <<R("databaseId", "databaseId", "copy", JsUndefined, NoGuard)>>)
    [] h = "revokeDatabaseAccess" ->
       H(TRUE, "DELETE", <<L(<<"/", "servers", "/">>), A("serverId"), L(<<"/", "databaseusers", "/">>), A("userId"), L(<<"/", "grant", "/">>), A("databaseId")>>,
         <<>>,
         FALSE, <<>>)
    [] h = "listSystemUsers" ->
       H(TRUE, "GET", <<L(<<"/", "servers", "/">>), A("serverId"), L(<<"/", "users">>)>>,
         <<R("search", "search", "ifTruthy", JsUndefined, NoGuard),
             R("page", "page", "ifTruthy", JsUndefined, NoGuard)>>,
         FALSE, <<>>)
    [] h = "createSystemUser" ->
       H(TRUE, "POST", <<L(<<"/", "servers", "/">>), A("serverId"), L(<<"/", "users">>)>>,
         <<>>,
         TRUE, <<R("username", "username", "copy", JsUndefined, NoGuard),
             R("password", "password", "copy", JsUndefined, NoGuard)>>)
    [] h = "deleteSystemUser" ->
       H(TRUE, "DELETE", <<L(<<"/", "servers", "/">>), A("serverId"), L(<<"/", "users", "/">>), A("userId")>>,
         <<>>,
         FALSE, <<>>)
    [] h = "updateSystemUserPassword" ->
       H(TRUE, "PATCH", <<L(<<"/", "servers", "/">>), A("serverId"), L(<<"/", "users", "/">>), A("userId")>>,
         <<>>,
         TRUE, <<R("password", "password", "copy", JsUndefined, NoGuard)>>)
    [] h = "listSshKeys" ->
       H(TRUE, "GET", <<L(<<"/", "servers", "/">>), A("serverId"), L(<<"/", "users", "/">>), A("userId"), L(<<"/", "sshkeys">>)>>,
         <<>>,
         FALSE, <<>>)
    [] h = "addSshKey" ->
       H(TRUE, "POST", <<L(<<"/", "servers", "/">>), A("serverId"), L(<<"/", "users", "/">>), A("userId"), L(<<"/", "sshkeys">>)>>,
         <<>>,
         TRUE, <<R("label", "label", "copy", JsUndefined, NoGuard),
             R("publicKey", "publicKey", "copy", JsUndefined, NoGuard)>>)
    [] h = "deleteSshKey" ->
       H(TRUE, "DELETE", <<L(<<"/", "servers", "/">>), A("serverId"), L(<<"/", "users", "/">>), A("userId"), L(<<"/", "sshkeys", "/">>), A("keyId")>>,
         <<>>,
         FALSE, <<>>)
    [] h = "listCronJobs" ->
       H(TRUE, "GET", <<L(<<"/", "servers", "/">>), A("serverId"), L(<<"/", "webapps", "/">>), A("webappId"), L(<<"/", "cronjobs">>)>>,
         <<>>,
         FALSE, <<>>)
    [] h = "createCronJob" ->
       H(TRUE, "POST", <<L(<<"/", "servers", "/">>), A("serverId"), L(<<"/", "webapps", "/">>), A("webappId"), L(<<"/", "cronjobs">>)>>,
         <<>>,
         TRUE, <<R("label", "label", "copy", JsUndefined, NoGuard),
             R("command", "command", "copy", JsUndefined, NoGuard),
             R("user", "user", "copy", JsUndefined, NoGuard),
             R("cronExpression", "cronExpression", "copy", JsUndefined, NoGuard)>>)
    [] h = "deleteCronJob" ->
       H(TRUE, "DELETE", <<L(<<"/", "servers", "/">>), A("serverId"), L(<<"/", "webapps", "/">>), A("webappId"), L(<<"/", "cronjobs", "/">>), A("cronId")>>,
         <<>>,
         FALSE, <<>>)
    [] h = "listServices" ->
       H(TRUE, "GET", <<L(<<"/", "servers", "/">>), A("serverId"), L(<<"/", "services">>)>>,
         <<>>,
         FALSE, <<>>)
    [] h = "controlService" ->
       H(TRUE, "POST", <<L(<<"/", "servers", "/">>), A("serverId"), L(<<"/", "services", "/">>), A("serviceName")>>,
         <<>>,
         TRUE, <<R("action", "action", "copy", JsUndefined, NoGuard)>>)
    [] h = "listSupervisorJobs" ->
       H(TRUE, "GET", <<L(<<"/", "servers", "/">>), A("serverId"), L(<<"/", "supervisorjobs">>)>>,
         <<>>,
         FALSE, <<>>)
    [] h = "createSupervisorJob" ->
       H(TRUE, "POST", <<L(<<"/", "servers", "/">>), A("serverId"), L(<<"/", "supervisorjobs">>)>>,
         <<>>,
         TRUE, <<R("jobName", "jobName", "copy", JsUndefined, NoGuard),
             R("user", "user", "copy", JsUndefined, NoGuard),
             R("command", "command", "copy", JsUndefined, NoGuard),
             R("directory", "directory", "or", JsStr(<<>>), NoGuard),
             R("processCount", "processCount", "or", JsNum("1"), NoGuard),
             R("autoStart", "autoStart", "notFalse", JsUndefined, NoGuard),
             R("autoRestart", "autoRestart", "notFalse", JsUndefined, NoGuard)>>)
    [] h = "deleteSupervisorJob" ->
       H(TRUE, "DELETE", <<L(<<"/", "servers", "/">>), A("serverId"), L(<<"/", "supervisorjobs", "/">>), A("jobId")>>,
         <<>>,
         FALSE, <<>>)
    [] h = "controlSupervisorJob" ->
       H(TRUE, "POST", <<L(<<"/", "servers", "/">>), A("serverId"), L(<<"/", "supervisorjobs", "/">>), A("jobId")>>,
         <<>>,
         TRUE, <<R("action", "action", "copy", JsUndefined, NoGuard)>>)
    [] h = "getServerLogs" ->
       H(TRUE, "GET", <<L(<<"/", "servers", "/">>), A("serverId"), L(<<"/", "logs", "/">>), A("type")>>,
         <<R("lines", "lines", "ifTruthy", JsUndefined, NoGuard)>>,
         FALSE, <<>>)
    [] h = "getWebappLogs" ->
       H(TRUE, "GET", <<L(<<"/", "servers", "/">>), A("serverId"), L(<<"/", "webapps", "/">>), A("webappId"), L(<<"/", "logs", "/">>), A("type")>>,
         <<R("lines", "lines", "ifTruthy", JsUndefined, NoGuard)>>,
         FALSE, <<>>)
    [] h = "getInstalledScript" ->
       H(TRUE, "GET", <<L(<<"/", "servers", "/">>), A("serverId"), L(<<"/", "webapps", "/">>), A("webappId"), L(<<"/", "installer">>)>>,
         <<>>,
         FALSE, <<>>)
    [] h = "removeInstalledScript" ->
       H(TRUE, "DELETE", <<L(<<"/", "servers", "/">>), A("serverId"), L(<<"/", "webapps", "/">>), A("webappId"), L(<<"/", "installer", "/">>), A("installerId")>>,
         <<>>,
         FALSE, <<>>)
    [] h = "installScript" ->
       H(TRUE, "POST", <<L(<<"/", "servers", "/">>), A("serverId"), L(<<"/", "webapps", "/">>), A("webappId"), L(<<"/", "installer">>)>>,
         <<>>,
         TRUE, <<R("installerId", "installerId", "copy", JsUndefined, NoGuard),
             R("admin_username", "admin_username", "ifTruthy", JsUndefined, NoGuard),
             R("admin_email", "admin_email", "ifTruthy", JsUndefined, NoGuard),
             R("admin_password", "admin_password", "ifTruthy", JsUndefined, NoGuard),
             R("site_title", "site_title", "ifTruthy", JsUndefined, NoGuard),
             R("language", "language", "ifTruthy", JsUndefined, NoGuard)>>)
    [] h = "createFirewallRule" ->
       H(TRUE, "POST", <<L(<<"/", "servers", "/">>), A("serverId"), L(<<"/", "security", "/", "firewalls">>)>>,
         <<>>,
         TRUE, <<R("type", "type", "copy", JsUndefined, NoGuard),
             R("port", "port", "copy", JsUndefined, G("args", "type", <<"port">>)),
             R("protocol", "protocol", "or", JsStr(<<"tcp">>), G("args", "type", <<"port">>)),
             R("ipAddress", "ipAddress", "copy", JsUndefined, G("args", "type", <<"ip">>)),
             R("firewallAction", "firewallAction", "or", JsStr(<<"accept">>), G("args", "type", <<"ip">>))>>)
    [] h = "listFirewallRules" ->
       H(TRUE, "GET", <<L(<<"/", "servers", "/">>), A("serverId"), L(<<"/", "security", "/", "firewalls">>)>>,
         <<>>,
         FALSE, <<>>)
    [] h = "getFirewallRule" ->
       H(TRUE, "GET", <<L(<<"/", "servers", "/">>), A("serverId"), L(<<"/", "security", "/", "firewalls", "/">>), A("firewallId")>>,
         <<>>,
         FALSE, <<>>)
    [] h = "deployFirewallRules" ->
       H(TRUE, "PUT", <<L(<<"/", "servers", "/">>), A("serverId"), L(<<"/", "security", "/", "firewalls">>)>>,
         <<>>,
         FALSE, <<>>)
    [] h = "deleteFirewallRule" ->
       H(TRUE, "DELETE", <<L(<<"/", "servers", "/">>), A("serverId"), L(<<"/", "security", "/", "firewalls", "/">>), A("firewallId")>>,
         <<>>,
         FALSE, <<>>)
    [] h = "listBlockedIps" ->
       H(TRUE, "GET", <<L(<<"/", "servers", "/">>), A("serverId"), L(<<"/", "security", "/", "fail2ban", "/", "blockedip">>)>>,
         <<>>,
         FALSE, <<>>)
    [] h = "unblockIp" ->
       H(TRUE, "DELETE", <<L(<<"/", "servers", "/">>), A("serverId"), L(<<"/", "security", "/", "fail2ban", "/", "blockedip">>)>>,
         <<>>,
         TRUE, <<R("ip", "ip", "copy", JsUndefined, NoGuard)>>)
    [] h = "listDatabaseCollations" ->
       H(FALSE, "GET", <<L(<<"/", "static", "/", "databases", "/", "collations">>)>>,
         <<>>,
         FALSE, <<>>)
    [] h = "listTimezones" ->
       H(FALSE, "GET", <<L(<<"/", "static", "/", "timezones">>)>>,
         <<>>,
         FALSE, <<>>)
    [] h = "listScriptInstallers" ->
       H(FALSE, "GET", <<L(<<"/", "static", "/", "webapps", "/", "installers">>)>>,
         <<>>,
         FALSE, <<>>)
    [] h = "listSslProtocols" ->
       H(TRUE, "GET", <<L(<<"/", "static", "/", "ssl", "/", "protocols">>)>>,
         <<R("webServer", "webServer", "copy", JsUndefined, NoGuard)>>,
         FALSE, <<>>)
    [] h = "createExternalApiKey" ->
       H(TRUE, "POST", <<L(<<"/", "settings", "/", "externalapi">>)>>,
         <<>>,
         TRUE, <<R("label", "label", "copy", JsUndefined, NoGuard),
             R("service", "service", "copy", JsUndefined, NoGuard),
             R("secret", "secret", "copy", JsUndefined, NoGuard),
             R("username", "username", "ifTruthy", JsUndefined, NoGuard)>>)
    [] h = "listExternalApiKeys" ->
       H(TRUE, "GET", <<L(<<"/", "settings", "/", "externalapi">>)>>,
         <<R("search", "search", "ifTruthy", JsUndefined, NoGuard)>>,
         FALSE, <<>>)
    [] h = "getExternalApiKey" ->
       H(TRUE, "GET", <<L(<<"/", "settings", "/", "externalapi", "/">>), A("apiId")>>,
         <<>>,
         FALSE, <<>>)
    [] h = "updateExternalApiKey" ->
       H(TRUE, "PATCH", <<L(<<"/", "settings", "/", "externalapi", "/">>), A("apiId")>>,
         <<>>,
         TRUE, <<R("label", "label", "ifTruthy", JsUndefined, NoGuard),
             R("username", "username", "ifTruthy", JsUndefined, NoGuard),
             R("secret", "secret", "ifTruthy", JsUndefined, NoGuard)>>)
    [] h = "deleteExternalApiKey" ->
       H(TRUE, "DELETE", <<L(<<"/", "settings", "/", "externalapi", "/">>), A("apiId")>>,
         <<>>,
         FALSE, <<>>)
    [] h = "healthCheck" ->
       H(FALSE, "GET", <<L(<<"/", "ping">>)>>,
         <<>>,
         FALSE, <<>>)

\* The case labels of the switch of the index-basic.js server, in source order.
BasicCases ==
  << "list_servers", "get_server", "get_server_stats", "list_webapps",
     "get_webapp", "create_webapp", "list_databases", "create_database",
     "list_database_users", "create_database_user", "list_services",
     "control_service", "deploy_git" >>

\* The case labels of the switch of the 54-tool server, in source order.
V54Cases ==
  << "list_servers", "get_server", "create_server", "delete_server",
     "get_server_stats", "get_server_hardware_info",
     "get_installation_script", "list_webapps", "get_webapp",
     "create_webapp", "delete_webapp", "set_webapp_default",
     "rebuild_webapp", "clone_git_repository", "get_git_info",
     "change_git_branch", "deploy_git", "list_domains", "add_domain",
     "delete_domain", "install_ssl", "get_ssl_info", "list_databases",
     "create_database", "delete_database", "list_database_users",
     "create_database_user", "delete_database_user",
     "update_database_user_password", "grant_database_access",
     "revoke_database_access", "list_system_users", "create_system_user",
     "delete_system_user", "update_system_user_password", "list_ssh_keys",
     "add_ssh_key", "delete_ssh_key", "list_cron_jobs", "create_cron_job",
     "delete_cron_job", "list_services", "control_service",
     "list_supervisor_jobs", "create_supervisor_job",
     "delete_supervisor_job", "control_supervisor_job", "get_server_logs",
     "get_webapp_logs", "get_firewall_rules", "add_firewall_rule",
     "delete_firewall_rule", "install_script", "health_check" >>

\* The case labels of the switch of the full server, in source order.
FullCases ==
  << "list_servers", "get_server", "create_server", "delete_server",
     "get_server_stats", "get_server_hardware_info",
     "get_installation_script", "get_ssh_settings", "update_ssh_settings",
     "update_server_metadata", "update_server_autoupdate",
     "list_php_versions", "change_php_cli_version", "list_shared_servers",
     "list_webapps", "get_webapp", "create_webapp", "delete_webapp",
     "set_webapp_default", "remove_webapp_default", "rebuild_webapp",
     "update_webapp_settings", "change_webapp_php_version",
     "create_webapp_alias", "clone_git_repository", "get_git_info",
     "change_git_branch", "deploy_git", "update_git_deployment_script",
     "delete_git_repository", "list_domains", "get_domain", "add_domain",
     "delete_domain", "get_ssl_info", "install_ssl", "update_ssl",
     "redeploy_ssl", "delete_ssl", "get_advanced_ssl_status",
     "switch_ssl_mode", "install_domain_ssl", "get_domain_ssl_info",
     "update_domain_ssl", "redeploy_domain_ssl", "delete_domain_ssl",
     "list_databases", "create_database", "delete_database",
     "list_database_users", "create_database_user", "delete_database_user",
     "update_database_user_password", "grant_database_access",
     "revoke_database_access", "list_system_users", "create_system_user",
     "delete_system_user", "update_system_user_password", "list_ssh_keys",
     "add_ssh_key", "delete_ssh_key", "list_cron_jobs", "create_cron_job",
     "delete_cron_job", "list_services", "control_service",
     "list_supervisor_jobs", "create_supervisor_job",
     "delete_supervisor_job", "control_supervisor_job", "get_server_logs",
     "get_webapp_logs", "get_installed_script", "remove_installed_script",
     "install_script", "create_firewall_rule", "list_firewall_rules",
     "get_firewall_rule", "deploy_firewall_rules", "delete_firewall_rule",
     "list_blocked_ips", "unblock_ip", "list_database_collations",
     "list_timezones", "list_script_installers", "list_ssl_protocols",
     "create_external_api_key", "list_external_api_keys",
     "get_external_api_key", "update_external_api_key",
     "delete_external_api_key", "health_check" >>

(***************************************************************************)
(* The program that runs.                                                  *)
(***************************************************************************)
Variants == {"basic", "v54", "full"}

\* A tools array that loses its first entry once a tool call has finished.
ToolsAfterCalls(v) ==
  LET tools == CASE v = "basic" -> BasicTools
                 [] v = "v54" -> V54Tools
                 [] v = "full" -> FullTools
  IN IF hist.served > 0 THEN Tail(tools) ELSE tools

\* A tools array that registers its first tool twice.
ToolsWithRepeatedEntry(v) ==
  LET tools == CASE v = "basic" -> BasicTools
                 [] v = "v54" -> V54Tools
                 [] v = "full" -> FullTools
  IN Append(tools, Head(tools))

\* The tools array the ListToolsRequestSchema handler returns.
Tools(v) ==
  CASE v = "basic" -> BasicTools
    [] v = "v54" -> V54Tools
    [] v = "full" -> FullTools

\* The case labels of the switch (name) of a variant's call handler.
Cases(v) ==
  CASE v = "basic" -> BasicCases
    [] v = "v54" -> V54Cases
    [] v = "full" -> FullCases

\* Switch with the case of deploy_git missing.
SwitchWithoutDeployGit(v, name) ==
  IF name = "deploy_git" THEN "default"
  ELSE CASE v = "basic" -> BasicSwitch(name)
         [] v = "v54" -> V54Switch(name)
         [] v = "full" -> FullSwitch(name)

\* switch (name) of the CallToolRequestSchema handler: the handler method
\* the case calls, "default" when no case matches.
Switch(v, name) ==
  CASE v = "basic" -> BasicSwitch(name)
    [] v = "v54" -> V54Switch(name)
    [] v = "full" -> FullSwitch(name)

HandlerMethod(v, h) ==
  CASE v = "basic" -> BasicHandler(h)
    [] v = "v54" -> V54Handler(h)
    [] v = "full" -> FullHandler(h)

ToolNames(v) == {Tools(v)[i].name : i \in DOMAIN Tools(v)}

IsListed(v, name) == name \in ToolNames(v)

\* A descriptor whose schema declares no field required.
DescriptorRequiresNothing(v, name) ==
  [Tools(v)[CHOOSE i \in DOMAIN Tools(v) : Tools(v)[i].name = name]
     EXCEPT !.required = {}]

\* The descriptor listed under a name.
Descriptor(v, name) ==
  Tools(v)[CHOOSE i \in DOMAIN Tools(v) : Tools(v)[i].name = name]

(***************************************************************************)
(* Argument mapping of a handler method.                                   *)
(***************************************************************************)
\* A template literal `/servers/${args.serverId}/..`: the literal pieces and
\* String(args.f) for each placeholder, concatenated.
RECURSIVE TemplateLiteral(_, _)
TemplateLiteral(parts, args) ==
  IF parts = <<>> THEN <<>>
  ELSE LET p == Head(parts)
       IN (IF p.arg = "" THEN p.lit ELSE Get(args, p.arg).s)
            \o TemplateLiteral(Tail(parts), args)

\* GuardHolds with  if (data.f)  where the code has  if (data.f === 'lit').
GuardTestsTruthiness(g, args, data) ==
  CASE g.on = "none" -> TRUE
    [] g.on = "args" -> Get(args, g.f) = JsStr(g.lit)
    [] g.on = "data" -> Truthy(Get(data, g.f))

GuardHolds(g, args, data) ==
  CASE g.on = "none" -> TRUE
    [] g.on = "args" -> Get(args, g.f) = JsStr(g.lit)
    [] g.on = "data" -> Get(data, g.f) = JsStr(g.lit)

\* Assign with the enclosing if (args.f === 'lit') dropped.
AssignOutsideArgsGuard(r, args, data) ==
  LET a == Get(args, r.a)
  IN IF r.g.on # "args" /\ ~GuardHolds(r.g, args, data) THEN data
     ELSE CASE r.op = "copy" -> SetKey(data, r.k, a)
            [] r.op = "or" -> SetKey(data, r.k, JsOr(a, r.d))
            [] r.op = "notFalse" -> SetKey(data, r.k, JsNotFalse(a))
            [] r.op = "ifTruthy" ->
                 IF Truthy(a) THEN SetKey(data, r.k, a) ELSE data
            [] r.op = "ifDefined" ->
                 IF a # JsUndefined THEN SetKey(data, r.k, a) ELSE data

\* Assign with every assignment written as k = args.a || "".
AssignDefaultsToEmptyString(r, args, data) ==
  SetKey(data, r.k, JsOr(Get(args, r.a), JsStr(<<>>)))

\* One assignment, applied to the object built so far.
Assign(r, args, data) ==
  LET a == Get(args, r.a)
  IN IF ~GuardHolds(r.g, args, data) THEN data
     ELSE CASE r.op = "copy" -> SetKey(data, r.k, a)
            [] r.op = "or" -> SetKey(data, r.k, JsOr(a, r.d))
            [] r.op = "notFalse" -> SetKey(data, r.k, JsNotFalse(a))
            [] r.op = "ifTruthy" ->
                 IF Truthy(a) THEN SetKey(data, r.k, a) ELSE data
            [] r.op = "ifDefined" ->
                 IF a # JsUndefined THEN SetKey(data, r.k, a) ELSE data

\* The assignments of a method in source order.
RECURSIVE BuildObject(_, _, _)
BuildObject(rules, args, data) ==
  IF rules = <<>> THEN data
  ELSE BuildObject(Tail(rules), args, Assign(Head(rules), args, data))

(***************************************************************************)
(* The axios instance `api`: what a call puts on the wire.                 *)
(***************************************************************************)
\* The request body is JSON.stringify(data): members whose value is
\* undefined are left out, null and "" are kept.
RequestBody(data) ==
  [k \in {x \in DOMAIN data : data[x] # JsUndefined} |-> data[k]]

\* params are serialised into the query string: null and undefined
\* parameters are skipped.
QueryString(params) ==
  [k \in {x \in DOMAIN params : params[x] \notin {JsUndefined, JsNull}}
     |-> params[k]]

\* The basic-auth pair of a request config.
Auth(username, password) == [username |-> username, password |-> password]

\* A request config that sets no auth of its own.
NoAuth == Auth(JsUndefined, JsUndefined)

NoRequest ==
  [method |-> "", path |-> <<>>, hasParams |-> FALSE, query |-> EmptyObject,
   hasBody |-> FALSE, body |-> EmptyObject,
   baseURL |-> JsUndefined, auth |-> NoAuth]

\* ApiCall passing the arguments object itself as the request body.
ApiCallSendsArgs(hd, args) ==
  [method |-> hd.method,
   path |-> TemplateLiteral(hd.path, args),
   hasParams |-> hd.query # <<>>,
   query |-> QueryString(BuildObject(hd.query, args, EmptyObject)),
   hasBody |-> hd.hasBody,
   body |-> IF hd.hasBody THEN RequestBody(args) ELSE EmptyObject,
   baseURL |-> JsUndefined,
   auth |-> NoAuth]

\* ApiCall with a per-call credential taken from the arguments.
ApiCallAuthFromArgs(hd, args) ==
  [method |-> hd.method,
   path |-> TemplateLiteral(hd.path, args),
   hasParams |-> hd.query # <<>>,
   query |-> QueryString(BuildObject(hd.query, args, EmptyObject)),
   hasBody |-> hd.hasBody,
   body |-> IF hd.hasBody
            THEN RequestBody(BuildObject(hd.body, args, EmptyObject))
            ELSE EmptyObject,
   baseURL |-> JsUndefined,
   auth |-> Auth(Get(args, "serverId"), Get(args, "serverId"))]

\* api.get / api.post / api.patch / api.put / api.delete as a handler
\* method calls it with its arguments object: the path, the params and the
\* data it passes; it passes no base URL and no auth.
ApiCall(hd, args) ==
  [method |-> hd.method,
   path |-> TemplateLiteral(hd.path, args),
   hasParams |-> hd.query # <<>>,
   query |-> QueryString(BuildObject(hd.query, args, EmptyObject)),
   hasBody |-> hd.hasBody,
   body |-> IF hd.hasBody
            THEN RequestBody(BuildObject(hd.body, args, EmptyObject))
            ELSE EmptyObject,
   baseURL |-> JsUndefined,
   auth |-> NoAuth]

(***************************************************************************)
(* What the remote API answers, as axios hands it to the caller.           *)
(***************************************************************************)
\* JSON values of a response body.
JNull == [j |-> "null", tok |-> "null", members |-> <<>>]
JNumber(tok) == [j |-> "number", tok |-> tok, members |-> <<>>]
JString(tok) == [j |-> "string", tok |-> tok, members |-> <<>>]
JMember(key, val) == [key |-> key, val |-> val]
JObject(members) == [j |-> "object", tok |-> "", members |-> members]
JArray(items) ==
  [j |-> "array", tok |-> "",
   members |-> [i \in DOMAIN items |-> JMember("", items[i])]]

Bodies ==
  { JObject(<<JMember("id", JNumber("123")), JMember("name", JString("prod"))>>),
    JObject(<<JMember("data",
                 JArray(<<JObject(<<JMember("id", JNumber("1"))>>), JNull>>)),
              JMember("meta", JObject(<<>>))>>) }

NoOutcome ==
  [kind |-> "none", status |-> "", data |-> JNull,
   dataMessage |-> JsUndefined, statusText |-> <<>>, message |-> <<>>]

\* A 2xx response: the promise resolves with response.data the parsed body.
Resolved(body) ==
  [kind |-> "ok", status |-> "200", data |-> body,
   dataMessage |-> JsUndefined, statusText |-> <<"OK">>, message |-> <<>>]

\* A non-2xx response: the promise rejects with an error that carries
\* error.response (status, statusText, data) and its own error.message.
\* The body is a JSON object; dataMessage is what reading its message
\* member gives.
Rejected(status, statusText, dataMessage) ==
  [kind |-> "http", status |-> status, data |-> JObject(<<>>),
   dataMessage |-> dataMessage, statusText |-> <<statusText>>,
   message |-> <<"Request failed with status code ", status>>]

\* No response at all: the promise rejects with an error without response.
NetworkFailure ==
  [kind |-> "network", status |-> "", data |-> JNull,
   dataMessage |-> JsUndefined, statusText |-> <<>>,
   message |-> <<"connect ECONNREFUSED">>]

\* A non-2xx response whose body is the JSON text null: response.data is
\* null and has no members to read.
RejectedWithNullBody(status, statusText) ==
  [Rejected(status, statusText, JsUndefined) EXCEPT !.data = JNull]

Outcomes ==
  {Resolved(b) : b \in Bodies}
    \cup { Rejected("422", "Unprocessable Entity", JsStr(<<"Name already taken">>)),
           Rejected("404", "Not Found", JsUndefined),
           Rejected("500", "Internal Server Error", JsStr(<<>>)),
           RejectedWithNullBody("502", "Bad Gateway"),
           NetworkFailure }

(***************************************************************************)
(* JSON.stringify(response.data, null, 2)                                  *)
(***************************************************************************)
Indent(n) == [i \in 1..n |-> "  "]

RECURSIVE JsonStringify(_, _)
RECURSIVE StringifyMembers(_, _, _, _)

\* The members of an object or array from the i-th on, one per line.
StringifyMembers(kind, members, i, depth) ==
  IF i > Len(members) THEN <<>>
  ELSE Indent(depth)
         \o (IF kind = "object"
             THEN <<"\"", members[i].key, "\"", ":", " ">> ELSE <<>>)
         \o JsonStringify(members[i].val, depth)
         \o (IF i < Len(members) THEN <<",">> ELSE <<>>)
         \o <<"\n">>
         \o StringifyMembers(kind, members, i + 1, depth)

\* The text of a value that starts at nesting depth `depth`.
JsonStringify(v, depth) ==
  CASE v.j = "null" -> <<"null">>
    [] v.j = "number" -> <<v.tok>>
    [] v.j = "string" -> <<"\"", v.tok, "\"">>
    [] v.j = "object" ->
         IF v.members = <<>> THEN <<"{}">>
         ELSE <<"{", "\n">>
                \o StringifyMembers("object", v.members, 1, depth + 1)
                \o Indent(depth) \o <<"}">>
    [] v.j = "array" ->
         IF v.members = <<>> THEN <<"[]">>
         ELSE <<"[", "\n">>
                \o StringifyMembers("array", v.members, 1, depth + 1)
                \o Indent(depth) \o <<"]">>

NoResult == [content |-> <<>>]

\* ApiResult stringifying the response object instead of response.data.
ApiResultOfResponse(response) ==
  [content |-> << [type |-> "text",
                   text |-> JsonStringify(
                              JObject(<<JMember("status", JNumber(response.status)),
                                        JMember("data", response.data)>>), 0)] >>]

\* The value a handler method returns once the response is there.
ApiResult(response) ==
  [content |-> << [type |-> "text", text |-> JsonStringify(response.data, 0)] >>]

(***************************************************************************)
(* Errors.                                                                 *)
(***************************************************************************)
NoError ==
  [kind |-> "none", code |-> "", message |-> <<>>, response |-> FALSE,
   nullData |-> FALSE, dataMessage |-> JsUndefined, statusText |-> <<>>]

\* new McpError(code, message)
McpError(code, message) ==
  [kind |-> "McpError", code |-> code, message |-> message,
   response |-> FALSE, nullData |-> FALSE, dataMessage |-> JsUndefined,
   statusText |-> <<>>]

\* Reading a property of undefined arguments.
TypeError ==
  [kind |-> "TypeError", code |-> "",
   message |-> <<"Cannot read properties of undefined">>,
   response |-> FALSE, nullData |-> FALSE, dataMessage |-> JsUndefined,
   statusText |-> <<>>]

\* Reading error.response.data.message where response.data is null.
NullTypeError ==
  [kind |-> "TypeError", code |-> "",
   message |-> <<"Cannot read properties of null">>,
   response |-> FALSE, nullData |-> FALSE, dataMessage |-> JsUndefined,
   statusText |-> <<>>]

\* The error a rejected axios promise throws: error.response is set when
\* there was a response, and error.response.data is its parsed body.
AxiosError(outcome) ==
  [kind |-> "AxiosError", code |-> "", message |-> outcome.message,
   response |-> outcome.kind = "http",
   nullData |-> outcome.kind = "http" /\ outcome.data = JNull,
   dataMessage |-> outcome.dataMessage,
   statusText |-> outcome.statusText]

\* The prefix and the fallback text of the wrapped error message.
ErrorPrefix(v) ==
  IF v = "full" THEN "RunCloud API error: " ELSE "RunCloud API Error: "

\* ErrorFallback with the status text in the 54-tool server too.
ErrorFallbackStatusTextOutsideBasic(v, error) ==
  IF v = "basic" THEN error.message ELSE error.statusText

ErrorFallback(v, error) ==
  IF v = "full" THEN error.statusText ELSE error.message

\* WrapIfResponse with the error's own message in place of the remote one.
WrapWithoutRemoteMessage(v, error) ==
  IF error.response
  THEN McpError("InternalError", <<ErrorPrefix(v)>> \o error.message)
  ELSE error

\* if (error.response) throw new McpError(InternalError, ..); throw error;
\* The message is a template literal that reads error.response.data.message:
\* with response.data null that read throws, out of the catch block.
WrapIfResponse(v, error) ==
  IF ~error.response THEN error
  ELSE IF error.nullData THEN NullTypeError
  ELSE McpError("InternalError",
         <<ErrorPrefix(v)>>
           \o JsOr(error.dataMessage, JsStr(ErrorFallback(v, error))).s)

\* ApiResponseCatch without the test of error.response.
ApiResponseCatchWithoutTest(v, error) ==
  IF v # "full" THEN error
  ELSE IF error.nullData THEN NullTypeError
  ELSE McpError("InternalError",
         <<ErrorPrefix(v)>>
           \o JsOr(error.dataMessage, JsStr(ErrorFallback(v, error))).s)

\* The catch block of apiResponse: only the full server has one.
ApiResponseCatch(v, error) ==
  IF v = "full" THEN WrapIfResponse(v, error) ELSE error

\* CallToolCatch wrapping every error, also one without response.
CatchWrapsEveryError(v, error) ==
  McpError("InternalError", <<ErrorPrefix(v)>> \o error.message)

\* The catch block of the CallToolRequestSchema handler.
CallToolCatch(v, error) == WrapIfResponse(v, error)

(***************************************************************************)
(* The arguments a caller may send.                                        *)
(***************************************************************************)
\* Values the handler methods compare a field with, or that the field's
\* description lists.
CodeLiterals(f) ==
  CASE f = "provider" -> {"custom", "letsencrypt"}
    [] f = "processManager" -> {"dynamic", "ondemand", "static"}
    [] f = "type" -> {"port", "ip"}
    [] OTHER -> {}

SlashString == JsStr(<<"7", "/", "x">>)

\* The value a plain call supplies for a property.
PlainValue(p) ==
  CASE p.type = "number" -> JsNum("5")
    [] p.type = "boolean" -> JsBool(TRUE)
    [] OTHER ->
         IF p.enum # {} THEN JsStr(<<CHOOSE e \in p.enum : TRUE>>)
         ELSE JsStr(<<"x">>)

\* The values tried for a property: of the declared type, truthy and falsy,
\* and the literals the code knows.
FieldValues(p) ==
  CASE p.type = "number" -> {JsNum("5"), JsNum("0")}
    [] p.type = "boolean" -> {JsBool(TRUE), JsBool(FALSE)}
    [] OTHER ->
         {JsStr(<<e>>) : e \in p.enum \cup CodeLiterals(p.f)}
           \cup {PlainValue(p), JsStr(<<"x">>), JsStr(<<>>)}

\* Fields a caller may add although no schema of the variant declares them.
Undeclared == <<P("processManager", "string", {}, FALSE, <<>>)>>

\* The fields of a call: the properties the tool declares, then the
\* undeclared ones.
CallFields(v, name) ==
  LET props == IF IsListed(v, name) THEN Descriptor(v, name).props ELSE <<>>
      declared == {props[i].f : i \in DOMAIN props}
  IN props \o SelectSeq(Undeclared, LAMBDA p : p.f \notin declared)

\* The plain call: every required field, nothing else.
PlainArgs(v, name) ==
  IF ~IsListed(v, name) THEN EmptyObject
  ELSE LET d == Descriptor(v, name)
           req == {i \in DOMAIN d.props : d.props[i].f \in d.required}
       IN [f \in {d.props[i].f : i \in req} |->
             PlainValue(d.props[CHOOSE i \in req : d.props[i].f = f])]

Without(o, f) == [k \in DOMAIN o \ {f} |-> o[k]]

\* Every way to change field p of args.  A field the plain call supplies
\* (a required one) is dropped, or gets another value of its type, or a
\* string with a path separator; another field gets a value of its type.
Changes(p, args) ==
  IF p.f \in DOMAIN args
  THEN {SetKey(args, p.f, x) : x \in (FieldValues(p) \cup {SlashString}) \ {args[p.f]}}
         \cup {Without(args, p.f)}
  ELSE {SetKey(args, p.f, x) : x \in FieldValues(p)}

\* args with at most k of the fields i.. changed.
RECURSIVE Vary(_, _, _, _)
Vary(fields, i, k, args) ==
  IF k = 0 \/ i > Len(fields) THEN {args}
  ELSE Vary(fields, i + 1, k, args)
         \cup UNION {Vary(fields, i + 1, k - 1, c) : c \in Changes(fields[i], args)}

ArgSpace(v, name) == Vary(CallFields(v, name), 1, MaxDev, PlainArgs(v, name))

\* Names a caller may ask for: every tool of every variant and one no
\* variant has.
CallNames ==
  UNION {ToolNames(v) : v \in Variants} \cup {"nonexistent_tool"}

(***************************************************************************)
(* Start of the process: environment, credential check, axios instance.    *)
(***************************************************************************)
DefaultBaseUrl == JsStr(<<"https://manage.runcloud.io/api/v2">>)

\* process.env after dotenv.config(): each variable set or not.
Environment(key, secret, baseURL) ==
  [RUNCLOUD_API_KEY |-> key, RUNCLOUD_API_SECRET |-> secret,
   RUNCLOUD_BASE_URL |-> baseURL]

\* The environments a process is started in, over the given base URLs.
Environments(urls) ==
  {Environment(k, s, u) : k \in {JsUndefined, JsStr(<<"key">>)},
                          s \in {JsUndefined, JsStr(<<"secret">>)},
                          u \in urls}

\* if (!RUNCLOUD_API_KEY || !RUNCLOUD_API_SECRET)
CredentialsMissing(e) ==
  ~Truthy(e.RUNCLOUD_API_KEY) \/ ~Truthy(e.RUNCLOUD_API_SECRET)

\* Whether the variant has the credential validation at all.
ValidatesCredentials(v) == v \in {"v54", "full"}

\* axios.create({ baseURL, auth: { username, password }, headers })
AxiosCreate(e) ==
  [baseURL |-> JsOr(e.RUNCLOUD_BASE_URL, DefaultBaseUrl),
   auth |-> Auth(e.RUNCLOUD_API_KEY, e.RUNCLOUD_API_SECRET),
   headers |-> [ContentType |-> "application/json", Accept |-> "application/json"],
   params |-> EmptyObject]

\* No instance: the module has not got that far.
NoApi ==
  [baseURL |-> JsUndefined, auth |-> NoAuth,
   headers |-> [ContentType |-> "", Accept |-> ""], params |-> EmptyObject]

Starting == [state |-> "Starting", exitCode |-> 0, stderr |-> <<>>]

\* process.exit(1) after the console.error lines.
Exited ==
  [state |-> "Exited", exitCode |-> 1,
   stderr |-> <<"Error: RUNCLOUD_API_KEY and RUNCLOUD_API_SECRET are required.">>]

\* The server is connected to its transport and serves requests.
Running ==
  [state |-> "Running", exitCode |-> 0, stderr |-> <<"running on stdio">>]

(***************************************************************************)
(* The axios instance at work.                                             *)
(***************************************************************************)
\* The request axios sends for a call config: what the config leaves unset
\* comes from the instance.
Dispatch(instance, config) ==
  [config EXCEPT
     !.baseURL = IF config.baseURL # JsUndefined THEN config.baseURL
                 ELSE instance.baseURL,
     !.auth = IF config.auth # NoAuth THEN config.auth ELSE instance.auth,
     !.query = IF config.hasParams THEN config.query
               ELSE QueryString(instance.params)]

\* A handler method that stores its params as the instance's defaults.
InstanceKeepsParams(instance, config) ==
  IF config.hasParams THEN [instance EXCEPT !.params = config.query]
  ELSE instance

\* The instance after a handler method has called it: the methods pass
\* their config with the call and assign nothing to the instance.
InstanceAfterCall(instance, config) == instance

(***************************************************************************)
(* The state machine.                                                      *)
(***************************************************************************)
IdleInvocation ==
  [pc |-> "Idle", name |-> "", hasArgs |-> FALSE, args |-> EmptyObject,
   handler |-> "", req |-> NoRequest, calls |-> 0, remote |-> NoOutcome,
   result |-> NoResult, error |-> NoError]

\* Nothing served yet: no ListTools response, no finished tool call.
NoHistory == [lists |-> 0, first |-> <<>>, after |-> 0, served |-> 0]

Launched(envs) ==
  /\ variant \in Variants
  /\ env \in envs
  /\ proc = Starting
  /\ api = NoApi
  /\ listed = <<>>
  /\ inv = IdleInvocation
  /\ other = IdleInvocation
  /\ hist = NoHistory

Init == Launched(Environments({JsUndefined}))

\* The module body runs: the credential validation where the variant has
\* one, then axios.create, the server object and server.run().
Start ==
  /\ proc.state = "Starting"
  /\ IF ValidatesCredentials(variant) /\ CredentialsMissing(env)
     THEN proc' = Exited /\ api' = api
     ELSE proc' = Running /\ api' = AxiosCreate(env)
  /\ UNCHANGED <<variant, env, listed, inv, other, hist>>

\* The ListToolsRequestSchema handler.
ListTools ==
  /\ proc.state = "Running"
  /\ inv.pc = "Idle"
  /\ listed' = Tools(variant)
  /\ inv' = [IdleInvocation EXCEPT !.pc = "Listed"]
  /\ UNCHANGED <<variant, env, proc, api, other, hist>>

\* StartCall with  arguments: args = {}  in the destructuring: no method
\* reads a property of undefined.
StartCallDefaultsArgs(v, name, hasArgs, args) ==
  LET h == Switch(v, name)
      started == [IdleInvocation EXCEPT !.name = name, !.hasArgs = hasArgs,
                                        !.args = args, !.handler = h]
  IN IF h = "default"
     THEN [started EXCEPT
             !.pc = "Failed",
             !.error = CallToolCatch(v,
                         McpError("MethodNotFound", <<"Unknown tool: ", name>>))]
     ELSE [started EXCEPT !.pc = "Calling",
                          !.req = ApiCall(HandlerMethod(v, h), args),
                          !.calls = 1]

\* The CallToolRequestSchema handler up to its first await: the switch, then
\* the handler method, which builds its request and calls axios.  Reading
\* a property of undefined arguments throws before that.
StartCall(v, name, hasArgs, args) ==
  LET h == Switch(v, name)
      started == [IdleInvocation EXCEPT !.name = name, !.hasArgs = hasArgs,
                                        !.args = args, !.handler = h]
  IN IF h = "default"
     THEN [started EXCEPT
             !.pc = "Failed",
             !.error = CallToolCatch(v,
                         McpError("MethodNotFound", <<"Unknown tool: ", name>>))]
     ELSE IF HandlerMethod(v, h).reads /\ ~hasArgs
     THEN [started EXCEPT !.pc = "Failed",
                          !.error = CallToolCatch(v, TypeError)]
     ELSE [started EXCEPT !.pc = "Calling",
                          !.req = ApiCall(HandlerMethod(v, h), args),
                          !.calls = 1]

\* The invocation with its request as axios sends it.
Sent(instance, i) ==
  IF i.pc = "Calling" THEN [i EXCEPT !.req = Dispatch(instance, i.req)] ELSE i

CallTool ==
  /\ proc.state = "Running"
  /\ inv.pc = "Idle"
  /\ \E name \in CallNames, hasArgs \in BOOLEAN :
       \E args \in (IF hasArgs THEN ArgSpace(variant, name) ELSE {EmptyObject}) :
         LET started == StartCall(variant, name, hasArgs, args)
         IN /\ inv' = Sent(api, started)
            /\ api' = InstanceAfterCall(api, started.req)
  /\ UNCHANGED <<variant, env, proc, listed, other, hist>>

\* Settle returning an envelope next to the error it throws.
SettleWithEnvelopeOnError(v, i, outcome) ==
  [i EXCEPT !.pc = IF outcome.kind = "ok" THEN "Completed" ELSE "Failed",
            !.remote = outcome,
            !.result = ApiResult(outcome),
            !.error = IF outcome.kind = "ok" THEN NoError
                      ELSE CallToolCatch(v, ApiResponseCatch(v, AxiosError(outcome)))]

\* Settle calling the API once more after a failure.
SettleRetries(v, i, outcome) ==
  IF outcome.kind = "ok"
  THEN [i EXCEPT !.pc = "Completed", !.remote = outcome,
                 !.result = ApiResult(outcome)]
  ELSE [i EXCEPT !.pc = "Calling", !.remote = outcome, !.calls = 2]

\* The awaited promise settles: the handler method returns the envelope, or
\* the error passes the catch of apiResponse and the catch of the handler.
Settle(v, i, outcome) ==
  IF outcome.kind = "ok"
  THEN [i EXCEPT !.pc = "Completed", !.remote = outcome,
                 !.result = ApiResult(outcome)]
  ELSE [i EXCEPT !.pc = "Failed", !.remote = outcome,
                 !.error = CallToolCatch(v,
                             ApiResponseCatch(v, AxiosError(outcome)))]

HttpSettle ==
  /\ inv.pc = "Calling"
  /\ \E outcome \in Outcomes : inv' = Settle(variant, inv, outcome)
  /\ UNCHANGED <<variant, env, proc, api, listed, other, hist>>

\* The response is delivered and the finished request dropped; the next
\* request starts afresh.
Discard ==
  /\ inv.pc \in {"Listed", "Completed", "Failed"}
  /\ inv' = IdleInvocation
  /\ listed' = <<>>
  /\ UNCHANGED <<variant, env, proc, api, other, hist>>

Next == Start \/ ListTools \/ CallTool \/ HttpSettle \/ Discard

Spec == Init /\ [][Next]_vars

(***************************************************************************)
(* The same server in front of a remote API that accepts every request.    *)
(* What a handler method sends is fixed before the answer is there, so     *)
(* the properties of the request are checked here over the whole argument  *)
(* space with the 2xx answers alone.                                       *)
(***************************************************************************)
HttpAccept ==
  /\ inv.pc = "Calling"
  /\ \E body \in Bodies : inv' = Settle(variant, inv, Resolved(body))
  /\ UNCHANGED <<variant, env, proc, api, listed, other, hist>>

NextMap == Start \/ ListTools \/ CallTool \/ HttpAccept \/ Discard

\* The process is started with both credentials and the default base URL.
InitMap ==
  Launched({Environment(JsStr(<<"key">>), JsStr(<<"secret">>), JsUndefined)})

SpecMap == InitMap /\ [][NextMap]_vars

(***************************************************************************)
(* Two invocations in flight.  The handlers are async functions: while one *)
(* awaits its HTTP response the server takes the next request, so the      *)
(* requests of inv and other start, settle and finish in any order, and    *)
(* ListTools is served in between.  listed keeps the last response.        *)
(***************************************************************************)
CustomBaseUrl == JsStr(<<"https://runcloud.example/api/v2">>)

\* The calls SpecServe makes: with and without params, with a body, with
\* undefined arguments, of an unknown tool.
ServeCalls ==
  { [name |-> "list_servers", hasArgs |-> TRUE, args |-> EmptyObject],
    [name |-> "list_servers", hasArgs |-> TRUE,
     args |-> [search |-> JsStr(<<"x">>)]],
    [name |-> "get_server", hasArgs |-> TRUE, args |-> [serverId |-> JsNum("5")]],
    [name |-> "get_server", hasArgs |-> FALSE, args |-> EmptyObject],
    [name |-> "create_database", hasArgs |-> TRUE,
     args |-> [serverId |-> JsNum("5"), name |-> JsStr(<<"x">>)]],
    [name |-> "nonexistent_tool", hasArgs |-> TRUE, args |-> EmptyObject] }

Slots == {1, 2}

Slot(s) == IF s = 1 THEN inv ELSE other

SetSlot(s, i) ==
  IF s = 1 THEN inv' = i /\ other' = other ELSE other' = i /\ inv' = inv

\* Invocations started and not yet dropped.
InFlight == Cardinality({s \in Slots : Slot(s).pc # "Idle"})

InitServe == Launched(Environments({JsUndefined, CustomBaseUrl}))

\* The ListToolsRequestSchema handler, whatever else is in flight.
ServeList ==
  /\ proc.state = "Running"
  /\ hist.lists < MaxLists
  /\ listed' = Tools(variant)
  /\ hist' = [hist EXCEPT !.lists = @ + 1,
                          !.first = IF @ = <<>> THEN Tools(variant) ELSE @,
                          !.after = hist.served]
  /\ UNCHANGED <<variant, env, proc, api, inv, other>>

\* The CallToolRequestSchema handler up to its first await, in a free slot.
ServeCall ==
  /\ proc.state = "Running"
  /\ hist.served + InFlight < MaxServed
  /\ \E s \in Slots, c \in ServeCalls :
       LET started == StartCall(variant, c.name, c.hasArgs, c.args)
       IN /\ Slot(s).pc = "Idle"
          /\ SetSlot(s, Sent(api, started))
          /\ api' = InstanceAfterCall(api, started.req)
  /\ UNCHANGED <<variant, env, proc, listed, hist>>

\* The promise the invocation in slot s awaits settles.
SettleSlot(s) ==
  /\ Slot(s).pc = "Calling"
  /\ \E outcome \in Outcomes : SetSlot(s, Settle(variant, Slot(s), outcome))
  /\ UNCHANGED <<variant, env, proc, api, listed, hist>>

\* One of the awaited promises settles.
ServeSettle == \E s \in Slots : SettleSlot(s)

\* A finished invocation is dropped.
ServeDiscard ==
  /\ \E s \in Slots :
       /\ Slot(s).pc \in {"Completed", "Failed"}
       /\ SetSlot(s, IdleInvocation)
  /\ hist' = [hist EXCEPT !.served = @ + 1]
  /\ UNCHANGED <<variant, env, proc, api, listed>>

NextServe == Start \/ ServeList \/ ServeCall \/ ServeSettle \/ ServeDiscard

SpecServe == InitServe /\ [][NextServe]_vars

(***************************************************************************)
(* The tool calls of the same server with an HTTP layer that answers:      *)
(* every request axios has sent ends with a response or with a failure, so *)
(* the promise an invocation awaits is settled at some point whatever the  *)
(* other invocation does.  ListTools awaits nothing and touches no         *)
(* invocation; it is left out here.                                        *)
(***************************************************************************)
NextLive == Start \/ ServeCall \/ ServeSettle \/ ServeDiscard

SpecLive ==
  Init /\ [][NextLive]_vars /\ \A s \in Slots : WF_vars(SettleSlot(s))
(***************************************************************************)
(* Properties.                                                             *)
(***************************************************************************)
TypeOK ==
  /\ variant \in Variants
  /\ proc \in {Starting, Running, Exited}
  /\ api \in {NoApi, AxiosCreate(env)}
  /\ other = IdleInvocation
  /\ hist = NoHistory
  /\ inv.pc \in {"Idle", "Listed", "Calling", "Completed", "Failed"}
  /\ (listed # <<>>) <=> (inv.pc = "Listed")
  /\ inv.calls \in {0, 1}

\* The request in hand is a tool call.
InCall == inv.pc \in {"Calling", "Completed", "Failed"}

\* The invocation in hand is a call of a tool the running variant lists.
ListedCall == InCall /\ IsListed(variant, inv.name)

\* The properties the called tool declares.
CalledProps == Descriptor(variant, inv.name).props

\* The invocation failed with the given kind of error before any request.
RejectedAs(kind) ==
  inv.pc = "Failed" /\ inv.error.kind = kind /\ inv.calls = 0

\* The supplied value has the primitive type the property declares, and is
\* one of its enum literals when it declares some.
SchemaValid(p, val) ==
  /\ val.t = p.type
  /\ p.enum # {} => (Len(val.s) = 1 /\ val.s[1] \in p.enum)

\* The call supplies every required field, and every declared field it
\* supplies has the declared type and is within the declared enum.
ValidCall ==
  /\ ListedCall
  /\ inv.hasArgs
  /\ Descriptor(variant, inv.name).required \subseteq DOMAIN inv.args
  /\ \A i \in DOMAIN CalledProps :
       CalledProps[i].f \in DOMAIN inv.args
         => SchemaValid(CalledProps[i], inv.args[CalledProps[i].f])

\* Number of path segments: each "/" starts one.
Segments(path) == Cardinality({i \in DOMAIN path : path[i] = "/"})

\* The path template of a method with every placeholder filled by a value
\* that is one opaque segment.
OpaquePath(parts) ==
  TemplateLiteral(parts, [f \in {parts[i].arg : i \in DOMAIN parts} |-> JsNum("5")])

\* Keys of the object a rule list writes from argument field f.
KeysFrom(rules, f) == {rules[i].k : i \in {j \in DOMAIN rules : rules[j].a = f}}

CalledMethod == HandlerMethod(variant, inv.handler)

(* C1: a call of a listed tool that omits a field of the tool's required   *)
(* set makes no outbound HTTP call and fails with InvalidArguments.        *)
C1_MissingRequiredRejected ==
  (/\ ListedCall
   /\ inv.hasArgs
   /\ \E f \in Descriptor(variant, inv.name).required : f \notin DOMAIN inv.args)
    => RejectedAs("InvalidArguments")

(* C2: an argument value that contains path separators does not change the *)
(* number of path segments of the outbound request: it stays one segment.  *)
C2_PathSegmentsFixed ==
  inv.pc = "Calling"
    => Segments(inv.req.path) = Segments(OpaquePath(CalledMethod.path))

(* C3: every tool name that ListTools enumerates has a dispatch case: a    *)
(* call with a name of the ListTools response, and every call in hand with *)
(* a name the server lists, reaches a handler method and never fails with  *)
(* MethodNotFound.                                                         *)
C3_ListedToolsDispatch ==
  /\ \A i \in DOMAIN listed :
       LET call == StartCall(variant, listed[i].name, TRUE,
                             PlainArgs(variant, listed[i].name))
       IN /\ call.handler # "default"
          /\ call.error.code # "MethodNotFound"
  /\ ListedCall
       => /\ inv.handler # "default"
          /\ inv.error.code # "MethodNotFound"

C3_Witness ==
  /\ variant = "full"
  /\ inv.pc = "Listed"
  /\ Len(listed) = Len(FullTools)
  /\ listed[Len(listed)].name = "health_check"
  /\ StartCall(variant, "health_check", TRUE, EmptyObject).pc = "Calling"

(* C4: a call with a tool name that is not registered fails with the       *)
(* McpError MethodNotFound "Unknown tool: <name>", which the catch block   *)
(* passes on unchanged, and makes no outbound HTTP call.                   *)
C4_UnknownToolFails ==
  (InCall /\ ~IsListed(variant, inv.name))
    => /\ inv.pc = "Failed"
       /\ inv.error = McpError("MethodNotFound", <<"Unknown tool: ", inv.name>>)
       /\ inv.calls = 0
       /\ inv.req = NoRequest

C4_Witness ==
  /\ inv.pc = "Failed"
  /\ inv.name = "nonexistent_tool"
  /\ inv.hasArgs

(* C5: a supplied argument of the wrong primitive type, or outside the enum *)
(* its property declares, makes the call fail with InvalidArguments before  *)
(* any outbound HTTP call.                                                  *)
C5_BadArgumentRejected ==
  (/\ ListedCall
   /\ inv.hasArgs
   /\ \E i \in DOMAIN CalledProps :
        /\ CalledProps[i].f \in DOMAIN inv.args
        /\ ~SchemaValid(CalledProps[i], inv.args[CalledProps[i].f]))
    => RejectedAs("InvalidArguments")

(* C6: an omitted optional field whose description documents a default is  *)
(* sent in the body with exactly that default; create_database called with *)
(* only serverId and name sends POST /servers/{serverId}/databases with    *)
(* body {name, collation: 'utf8mb4_general_ci'}.                           *)
C6_DocumentedDefaultSent ==
  (ValidCall /\ inv.pc = "Calling")
    => /\ \A i \in DOMAIN CalledProps :
            LET p == CalledProps[i]
            IN (p.hasDefault /\ p.f \notin DOMAIN inv.args)
                 => /\ p.f \in DOMAIN inv.req.body
                    /\ inv.req.body[p.f] = JsStr(p.default)
       /\ (inv.name = "create_database" /\ DOMAIN inv.args = {"serverId", "name"})
            => /\ inv.req.method = "POST"
               /\ inv.req.path = <<"/", "servers", "/">> \o inv.args["serverId"].s
                                   \o <<"/", "databases">>
               /\ DOMAIN inv.req.body = {"name", "collation"}
               /\ inv.req.body["name"] = inv.args["name"]
               /\ inv.req.body["collation"] = JsStr(<<"utf8mb4_general_ci">>)

(* C7: a non-required field without documented default that the caller     *)
(* omits appears neither in the outbound body nor in the query.            *)
C7_OmittedFieldAbsent ==
  (ValidCall /\ inv.pc = "Calling")
    => \A i \in DOMAIN CalledProps :
         LET p == CalledProps[i]
         IN (/\ p.f \notin Descriptor(variant, inv.name).required
             /\ ~p.hasDefault
             /\ p.f \notin DOMAIN inv.args)
              => /\ KeysFrom(CalledMethod.body, p.f) \cap DOMAIN inv.req.body = {}
                 /\ KeysFrom(CalledMethod.query, p.f) \cap DOMAIN inv.req.query = {}

TuningFields ==
  {"processManagerStartServers", "processManagerMinSpareServers",
   "processManagerMaxSpareServers"}

\* A webapp-creation request is on its way.
WebappCreation ==
  /\ inv.pc = "Calling"
  /\ inv.name \in {"create_webapp", "create_webapp_alias"}

\* processManager "dynamic" puts the three tuning fields in the body,
\* "ondemand" or none keeps all three out.
TuningFollowsProcessManager ==
  LET pm == Get(inv.args, "processManager")
  IN /\ pm = JsStr(<<"dynamic">>) => TuningFields \subseteq DOMAIN inv.req.body
     /\ pm \in {JsStr(<<"ondemand">>), JsUndefined}
          => TuningFields \cap DOMAIN inv.req.body = {}

(* C8 as stated: in every variant, create_webapp and create_webapp_alias    *)
(* with processManager 'dynamic' send the three tuning fields, and with    *)
(* 'ondemand' or no processManager send none of them.                      *)
C8_Original == WebappCreation => TuningFollowsProcessManager

(* C8 amended: in the full server, create_webapp and create_webapp_alias    *)
(* with processManager 'dynamic' send the three tuning fields, and with    *)
(* 'ondemand' or no processManager send none of them, supplied or not.     *)
C8_FullServerTuning ==
  (variant = "full" /\ WebappCreation) => TuningFollowsProcessManager

C8_Witness ==
  /\ variant = "full"
  /\ WebappCreation
  /\ Get(inv.args, "processManager") = JsStr(<<"ondemand">>)
  /\ "processManagerStartServers" \in DOMAIN inv.args

CertificateKeys ==
  {"privateKey", "certificate", "certificateChain", "sslCert", "sslKey", "sslCa"}

(* C9: install_ssl and install_domain_ssl send the certificate and private- *)
(* key fields only when provider is 'custom'; with any other provider the  *)
(* body has none of them, supplied or not.                                 *)
C9_CertificateOnlyForCustom ==
  (inv.pc = "Calling" /\ inv.name \in {"install_ssl", "install_domain_ssl"})
    => /\ Get(inv.args, "provider") # JsStr(<<"custom">>)
            => CertificateKeys \cap DOMAIN inv.req.body = {}
       /\ Get(inv.args, "provider") = JsStr(<<"custom">>)
            => \A f \in {"privateKey", "certificate", "sslCert", "sslKey"} :
                 f \in DOMAIN inv.args
                   => (f \in DOMAIN inv.req.body /\ inv.req.body[f] = inv.args[f])

C9_Witness ==
  /\ inv.pc = "Calling"
  /\ inv.name = "install_ssl"
  /\ Get(inv.args, "provider") = JsStr(<<"letsencrypt">>)
  /\ \E f \in CertificateKeys : f \in DOMAIN inv.args

\* Reading JSON text back: the tokens without white space, then a value.
JsonTokens(text) == SelectSeq(text, LAMBDA t : t \notin {"\n", "  ", " "})

RECURSIVE JsonRead(_)
RECURSIVE JsonReadMembers(_, _, _)

\* The members up to the closing bracket: [val |-> members, rest |-> tokens].
JsonReadMembers(kind, toks, acc) ==
  LET keyed == kind = "object"
      body == IF keyed THEN SubSeq(toks, 5, Len(toks)) ELSE toks
      item == JsonRead(body)
      more == Append(acc, JMember(IF keyed THEN toks[2] ELSE "", item.val))
  IN IF Head(item.rest) = ","
     THEN JsonReadMembers(kind, Tail(item.rest), more)
     ELSE [val |-> more, rest |-> Tail(item.rest)]

\* The value the tokens start with: [val |-> value, rest |-> tokens after].
JsonRead(toks) ==
  LET t == Head(toks)
  IN CASE t = "null" -> [val |-> JNull, rest |-> Tail(toks)]
       [] t = "{}" -> [val |-> JObject(<<>>), rest |-> Tail(toks)]
       [] t = "[]" -> [val |-> JArray(<<>>), rest |-> Tail(toks)]
       [] t = "\"" -> [val |-> JString(toks[2]), rest |-> SubSeq(toks, 4, Len(toks))]
       [] t \in {"{", "["} ->
            LET kind == IF t = "{" THEN "object" ELSE "array"
                ms == JsonReadMembers(kind, Tail(toks), <<>>)
            IN [val |-> [j |-> kind, tok |-> "", members |-> ms.val],
                rest |-> ms.rest]
       [] OTHER -> [val |-> JNumber(t), rest |-> Tail(toks)]

JsonParse(text) == JsonRead(JsonTokens(text)).val

ScenarioABody ==
  JObject(<<JMember("id", JNumber("123")), JMember("name", JString("prod"))>>)

ScenarioAText ==
  << "{", "\n",
     "  ", "\"", "id", "\"", ":", " ", "123", ",", "\n",
     "  ", "\"", "name", "\"", ":", " ", "\"", "prod", "\"", "\n",
     "}" >>

(* C10: get_server with a numeric serverId n issues exactly one request,   *)
(* GET /servers/n, and on a 2xx response returns a success envelope whose  *)
(* content is exactly one text block: the remote JSON body pretty-printed, *)
(* nothing added, removed or reshaped.                                     *)
C10_GetServerPassthrough ==
  (/\ InCall
   /\ inv.name = "get_server"
   /\ inv.hasArgs
   /\ Get(inv.args, "serverId").t = "number")
    => /\ inv.calls = 1
       /\ inv.req.method = "GET"
       /\ inv.req.path = <<"/", "servers", "/">> \o inv.args["serverId"].s
       /\ DOMAIN inv.req.query = {}
       /\ ~inv.req.hasBody
       /\ inv.remote.kind = "ok"
            => /\ inv.pc = "Completed"
               /\ inv.error = NoError
               /\ Len(inv.result.content) = 1
               /\ inv.result.content[1].type = "text"
               /\ JsonParse(inv.result.content[1].text) = inv.remote.data
               /\ inv.remote.data = ScenarioABody
                    => inv.result.content[1].text = ScenarioAText

C10_Witness ==
  /\ inv.pc = "Completed"
  /\ inv.name = "get_server"
  /\ inv.args = [serverId |-> JsNum("5")]
  /\ inv.remote.data = ScenarioABody
  /\ inv.result.content[1].text = ScenarioAText

(* C11: list_servers called with an empty arguments object issues          *)
(* GET /servers with an empty query: no search key and no page key.        *)
C11_ListServersNoQuery ==
  (/\ InCall
   /\ inv.name = "list_servers"
   /\ inv.hasArgs
   /\ inv.args = EmptyObject)
    => /\ inv.calls = 1
       /\ inv.req.method = "GET"
       /\ inv.req.path = <<"/", "servers">>
       /\ DOMAIN inv.req.query = {}
       /\ ~inv.req.hasBody

C11_Witness ==
  /\ variant = "basic"
  /\ inv.pc = "Calling"
  /\ inv.name = "list_servers"
  /\ inv.hasArgs
  /\ inv.args = EmptyObject

\* The text that marks an error as coming from the RunCloud API.
UpstreamPrefixes == {"RunCloud API Error: ", "RunCloud API error: "}

(* C12: a non-2xx answer whose body carries a message makes the call fail  *)
(* with an error whose message is the upstream prefix followed by that     *)
(* remote message; the one request made is not repeated.                   *)
C12_RemoteMessageForwarded ==
  (/\ inv.pc \in {"Completed", "Failed"}
   /\ inv.remote.kind = "http"
   /\ Truthy(inv.remote.dataMessage))
    => /\ inv.pc = "Failed"
       /\ inv.result = NoResult
       /\ inv.error.kind = "McpError"
       /\ Head(inv.error.message) \in UpstreamPrefixes
       /\ Tail(inv.error.message) = inv.remote.dataMessage.s
       /\ inv.calls = 1

C12_Witness ==
  /\ inv.pc = "Failed"
  /\ inv.name = "create_database"
  /\ inv.remote.status = "422"
  /\ inv.error.message[2] = "Name already taken"

(* C14: when the HTTP call fails without any response, the caller gets the *)
(* transport error itself: not wrapped in an McpError, without the         *)
(* RunCloud API prefix, after the one request made.                        *)
C14_TransportErrorAsIs ==
  (inv.pc \in {"Completed", "Failed"} /\ inv.remote.kind = "network")
    => /\ inv.pc = "Failed"
       /\ inv.error = AxiosError(inv.remote)
       /\ inv.error.kind = "AxiosError"
       /\ inv.error.message = inv.remote.message
       /\ Head(inv.error.message) \notin UpstreamPrefixes
       /\ inv.calls = 1

C14_Witness ==
  /\ variant = "full"
  /\ inv.pc = "Failed"
  /\ inv.remote = NetworkFailure
  /\ inv.name = "get_server"

(* C15: a call never yields both an envelope and an error, and never a     *)
(* partial payload: a completed call has exactly one text block that reads *)
(* back as the whole remote body and no error; a failed call has exactly   *)
(* one error and no envelope; an unfinished call has neither.              *)
C15_OneOutcome ==
  /\ inv.pc = "Completed"
       => /\ inv.error = NoError
          /\ inv.remote.kind = "ok"
          /\ Len(inv.result.content) = 1
          /\ inv.result.content[1].type = "text"
          /\ JsonParse(inv.result.content[1].text) = inv.remote.data
  /\ inv.pc = "Failed"
       => /\ inv.error # NoError
          /\ inv.result = NoResult
  /\ inv.pc \in {"Idle", "Listed", "Calling"}
       => /\ inv.error = NoError
          /\ inv.result = NoResult

C15_Witness ==
  /\ inv.pc = "Completed"
  /\ inv.name = "list_webapps"
  /\ inv.remote.data # ScenarioABody
  /\ Len(inv.result.content[1].text) > Len(ScenarioAText)

(* C16: a call issues at most one HTTP request; the request in flight is   *)
(* settled once, without another being sent; and a failed call goes no     *)
(* further: the next step drops it.                                        *)
C16_NoRetry ==
  /\ [](inv.calls <= 1)
  /\ [][/\ inv.pc = "Calling"
             => /\ inv'.pc \in {"Completed", "Failed"}
                /\ inv'.calls = inv.calls
                /\ inv'.req = inv.req
        /\ inv.pc = "Failed" => inv'.pc = "Idle"]_vars

C16_Witness ==
  /\ inv.pc = "Failed"
  /\ inv.calls = 1
  /\ inv.remote.status = "404"
  /\ inv.error.kind = "McpError"

\* What the invocation of a slot is when it runs alone in a process started
\* in the same environment: its request, and its end once its HTTP request
\* has got the same answer.
RunAlone(i) ==
  LET started == Sent(AxiosCreate(env),
                      StartCall(variant, i.name, i.hasArgs, i.args))
  IN IF i.pc \in {"Completed", "Failed"} /\ started.pc = "Calling"
     THEN Settle(variant, started, i.remote)
     ELSE started

(* C17: whatever else is in flight and whatever was served before, an      *)
(* invocation's outbound request and its result are those of the same call *)
(* run alone, and the axios instance the invocations share stays as it was *)
(* created.                                                                *)
C17_InvocationsIndependent ==
  /\ proc.state = "Running" => api = AxiosCreate(env)
  /\ \A s \in Slots : Slot(s).pc # "Idle" => Slot(s) = RunAlone(Slot(s))

C17_Witness ==
  /\ hist.served >= 1
  /\ inv.pc = "Calling"
  /\ inv.name = "get_server"
  /\ other.pc = "Completed"
  /\ other.name = "list_servers"
  /\ other.args # EmptyObject

(* C18: every outbound request carries the basic-auth pair (API key as     *)
(* username, API secret as password) and the base URL the process read     *)
(* from its environment at start, whatever the tool and its arguments and  *)
(* however many invocations came before.                                   *)
C18_CredentialFixedAtStart ==
  (InCall /\ inv.calls = 1)
    => /\ inv.req.auth.username = env.RUNCLOUD_API_KEY
       /\ inv.req.auth.password = env.RUNCLOUD_API_SECRET
       /\ inv.req.baseURL =
            (IF env.RUNCLOUD_BASE_URL = JsUndefined THEN DefaultBaseUrl
             ELSE env.RUNCLOUD_BASE_URL)

C18_Witness ==
  /\ inv.pc = "Calling"
  /\ inv.name = "control_service"
  /\ Get(inv.args, "serverId") = SlashString
  /\ inv.req.auth = Auth(JsStr(<<"key">>), JsStr(<<"secret">>))
  /\ inv.req.baseURL = DefaultBaseUrl

(* C19: in every variant, a process started without RUNCLOUD_API_KEY or    *)
(* without RUNCLOUD_API_SECRET exits with a non-zero status after a        *)
(* diagnostic: it never runs, serves no ListTools and no CallTool request  *)
(* and sends no HTTP request.                                              *)
C19_FailFastWithoutCredentials ==
  CredentialsMissing(env)
    => /\ proc.state # "Running"
       /\ proc.state = "Exited" => (proc.exitCode # 0 /\ proc.stderr # <<>>)
       /\ listed = <<>>
       /\ inv = IdleInvocation

(* C20: every ListTools response is the same sequence of descriptors in    *)
(* the same order: the last response equals the first one, however many    *)
(* tool calls finished or are in flight in between.                        *)
C20_ListingStable ==
  hist.lists > 0
    => /\ listed = hist.first
       /\ listed = Tools(variant)

C20_Witness ==
  /\ hist.lists = 2
  /\ hist.after >= 1
  /\ inv.pc = "Failed"
  /\ other.pc = "Calling"
  /\ listed # <<>>

\* No entry of the sequence occurs twice.
Distinct(seq) == \A i, j \in DOMAIN seq : i # j => seq[i] # seq[j]

(* C21: tool names are unique in each variant: the descriptors of a        *)
(* ListTools response have pairwise different names, and the switch of the *)
(* call handler has one case per name, so a name resolves to one handler.  *)
C21_ToolNamesUnique ==
  inv.pc = "Listed"
    => /\ Distinct([i \in DOMAIN listed |-> listed[i].name])
       /\ Distinct(Cases(variant))
       /\ \A i \in DOMAIN listed :
            Cardinality({k \in DOMAIN Cases(variant) :
                           Cases(variant)[k] = listed[i].name}) = 1

C21_Witness ==
  /\ variant = "v54"
  /\ inv.pc = "Listed"
  /\ Len(listed) = Len(V54Cases)
  /\ Len(listed) > 50

\* The fields the inputSchema of the called tool declares.
DeclaredFields ==
  LET props == CalledProps IN {props[i].f : i \in DOMAIN props}

\* The arguments of the call in hand without the fields its tool does not
\* declare.
DeclaredArgs ==
  [f \in DOMAIN inv.args \cap DeclaredFields |-> inv.args[f]]

(* C22: a call with argument fields its tool's inputSchema does not        *)
(* declare is not rejected, and its outbound request (method, path, query, *)
(* body) is that of the same call without those fields.                    *)
C22_ExtraFieldsIgnored ==
  (/\ inv.pc = "Calling"
   /\ ListedCall
   /\ inv.hasArgs
   /\ DOMAIN inv.args \ DeclaredFields # {})
    => LET bare == Sent(api, StartCall(variant, inv.name, TRUE, DeclaredArgs))
       IN /\ inv.calls = 1
          /\ bare.calls = 1
          /\ inv.req.method = bare.req.method
          /\ inv.req.path = bare.req.path
          /\ inv.req.query = bare.req.query
          /\ inv.req.hasBody = bare.req.hasBody
          /\ inv.req.body = bare.req.body

C22_Witness ==
  /\ variant = "basic"
  /\ inv.pc = "Calling"
  /\ inv.name = "create_webapp"
  /\ Get(inv.args, "processManager") = JsStr(<<"dynamic">>)
  /\ inv.req.hasBody

\* The arguments of the call in hand satisfy the inputSchema of its tool:
\* every required field is there, and every declared field supplied has the
\* declared type and is within the declared enum.
ArgumentsValid ==
  /\ Descriptor(variant, inv.name).required
       \subseteq (IF inv.hasArgs THEN DOMAIN inv.args ELSE {})
  /\ \A i \in DOMAIN CalledProps :
       CalledProps[i].f \in DOMAIN inv.args
         => SchemaValid(CalledProps[i], inv.args[CalledProps[i].f])

(* C23: an invocation moves only forward: the HTTP call is issued only     *)
(* once the name is resolved to a handler and the arguments are validated  *)
(* and mapped; the call in flight ends completed or failed; a finished     *)
(* invocation is left for good and no earlier state is entered again.      *)
C23_ForwardOnly ==
  /\ [](inv.pc = "Calling"
          => /\ inv.handler \notin {"", "default"}
             /\ ArgumentsValid
             /\ inv.req # NoRequest)
  /\ [][/\ inv.pc = "Calling" => inv'.pc \in {"Completed", "Failed"}
        /\ inv.pc \in {"Completed", "Failed"} => inv'.pc = "Idle"]_vars

\* The forward order alone, without the validation step.
ForwardWithoutValidation ==
  /\ [](inv.pc = "Calling"
          => /\ inv.handler \notin {"", "default"}
             /\ inv.req # NoRequest)
  /\ [][/\ inv.pc = "Calling" => inv'.pc \in {"Completed", "Failed"}
        /\ inv.pc \in {"Completed", "Failed"} => inv'.pc = "Idle"]_vars

(* C24: given that the HTTP call ends with a response or a failure, every  *)
(* invocation reaches Completed or Failed; an invocation rests nowhere but *)
(* at its one HTTP call: whatever is not finished is awaiting it.          *)
C24_InvocationEnds ==
  \A s \in Slots :
    /\ [](Slot(s).pc \in {"Idle", "Calling", "Completed", "Failed"})
    /\ [](Slot(s).pc = "Calling" => Slot(s).calls = 1 /\ Slot(s).req # NoRequest)
    /\ (Slot(s).pc = "Calling") ~> (Slot(s).pc \in {"Completed", "Failed"})

\* Both invocations have awaited their HTTP calls together and have ended,
\* one with an envelope and one with an error.
C24_Witness ==
  /\ inv.pc = "Completed" /\ inv.calls = 1 /\ inv.remote.kind = "ok"
  /\ other.pc = "Failed" /\ other.calls = 1 /\ other.remote = NetworkFailure

\* The argument fields a handler method interpolates into its path.
PathArgs(hd) == {hd.path[i].arg : i \in DOMAIN hd.path} \ {""}

(* C25: in every variant, every argument a handler method interpolates    *)
(* into the request path is in the required set of its tool, and a call    *)
(* that supplies all required fields sends a path without the segment      *)
(* 'undefined'.                                                            *)
C25_PathArgsRequired ==
  /\ inv.pc = "Listed"
       => \A i \in DOMAIN listed :
            PathArgs(HandlerMethod(variant, Switch(variant, listed[i].name)))
              \subseteq Descriptor(variant, listed[i].name).required
  /\ (/\ inv.pc = "Calling"
      /\ ListedCall
      /\ inv.hasArgs
      /\ Descriptor(variant, inv.name).required \subseteq DOMAIN inv.args)
       => /\ inv.calls = 1
          /\ PathArgs(CalledMethod) \subseteq DOMAIN inv.args
          /\ \A k \in DOMAIN inv.req.path : inv.req.path[k] # "undefined"

\* A call of the full server whose path takes two arguments, both supplied.
C25_Witness ==
  /\ variant = "full"
  /\ inv.pc = "Calling"
  /\ inv.hasArgs
  /\ Cardinality(PathArgs(CalledMethod)) >= 2
  /\ Descriptor(variant, inv.name).required \subseteq DOMAIN inv.args
  /\ \A f \in PathArgs(CalledMethod) :
       \E k \in DOMAIN inv.req.path : <<inv.req.path[k]>> = inv.args[f].s

\* How often a token occurs in a message.
Occurrences(tok, message) ==
  Cardinality({k \in DOMAIN message : message[k] = tok})

(* C26: in the full server a non-2xx response becomes an McpError exactly  *)
(* once: apiResponse wraps it with code InternalError, the catch of the    *)
(* call handler rethrows that McpError as it is, and the message carries   *)
(* the prefix 'RunCloud API error: ' exactly once.                         *)
C26_WrappedOnce ==
  (variant = "full" /\ inv.pc = "Failed" /\ inv.remote.kind = "http")
    => LET wrapped == ApiResponseCatch("full", AxiosError(inv.remote))
       IN /\ wrapped.kind = "McpError"
          /\ wrapped.code = "InternalError"
          /\ inv.error = wrapped
          /\ Head(inv.error.message) = "RunCloud API error: "
          /\ Occurrences("RunCloud API error: ", inv.error.message) = 1

\* The call in hand as variant v serves it: started, sent, and settled with
\* the outcome the call in hand has got, if it has got one.
ServedBy(v) ==
  LET started == Sent(api, StartCall(v, inv.name, inv.hasArgs, inv.args))
  IN IF started.pc = "Calling" /\ inv.remote # NoOutcome
     THEN Settle(v, started, inv.remote)
     ELSE started

(* C27: for each of the 13 tools of src/index-basic.js, for every argument *)
(* object and remote outcome, src/index-basic.js and the 54-tool server    *)
(* send the same request (method, path, query, body) and return the same   *)
(* envelope or throw an error of the same code and message.                *)
C27_BasicEqualsV54 ==
  (InCall /\ variant \in {"basic", "v54"} /\ inv.name \in ToolNames("basic"))
    => LET b == ServedBy("basic")
           w == ServedBy("v54")
       IN /\ inv = ServedBy(variant)
          /\ inv.name \in ToolNames("v54")
          /\ b.pc = w.pc
          /\ b.calls = w.calls
          /\ b.req = w.req
          /\ b.result = w.result
          /\ b.error = w.error

\* A call with a body that the remote API has answered 404 without message.
C27_Witness ==
  /\ variant = "v54"
  /\ inv.name = "create_database"
  /\ inv.name \in ToolNames("basic")
  /\ inv.pc = "Failed"
  /\ inv.req.hasBody
  /\ inv.remote = Rejected("404", "Not Found", JsUndefined)
  /\ inv.error = ServedBy("basic").error

\* The assignments of a method that read argument field f.
ReadsOf(hd, f) ==
  LET rules == hd.query \o hd.body
  IN {rules[i] : i \in {j \in DOMAIN rules : rules[j].a = f}}

\* Field f is read by the method, and only under  if (args.f)  or as
\* args.f || default.
GuardedByTruthiness(hd, f) ==
  /\ f \notin PathArgs(hd)
  /\ ReadsOf(hd, f) # {}
  /\ \A r \in ReadsOf(hd, f) : r.op \in {"or", "ifTruthy"}

\* The supplied fields with a falsy value that the called method guards so.
FalsyGuarded ==
  {f \in DOMAIN inv.args :
     ~Truthy(inv.args[f]) /\ GuardedByTruthiness(CalledMethod, f)}

(* C28: a supplied falsy value is treated like an omitted one wherever the *)
(* handler method guards the field with a truthiness test or an || default *)
(* (page = 0 and search = '' stay out of the query; create_webapp sends    *)
(* maxExecutionTime 0 as 30 and publicPath '' as '/'), while a field       *)
(* guarded by !== undefined is forwarded as supplied, a false included.    *)
C28_FalsyLikeOmitted ==
  (inv.pc = "Calling" /\ ListedCall /\ inv.hasArgs)
    => LET hd == CalledMethod
           falsy == FalsyGuarded
           omitted == [f \in DOMAIN inv.args \ falsy |-> inv.args[f]]
       IN /\ falsy # {}
               => inv.req = Sent(api, StartCall(variant, inv.name, TRUE, omitted)).req
          /\ \A i \in DOMAIN hd.body :
               (/\ hd.body[i].op = "ifDefined"
                /\ hd.body[i].g = NoGuard
                /\ hd.body[i].a \in DOMAIN inv.args)
                 => Get(inv.req.body, hd.body[i].k) = inv.args[hd.body[i].a]

\* create_webapp of the full server with maxExecutionTime 0 and publicPath ''.
C28_Witness ==
  /\ variant = "full"
  /\ inv.pc = "Calling"
  /\ inv.name = "create_webapp"
  /\ Get(inv.args, "maxExecutionTime") = JsNum("0")
  /\ Get(inv.args, "publicPath") = JsStr(<<>>)
  /\ Get(inv.req.body, "maxExecutionTime") = JsNum("30")
  /\ Get(inv.req.body, "publicPath") = JsStr(<<"/">>)

(* C29: called with undefined arguments, every handler method that reads a *)
(* field of its arguments throws before any HTTP call is made, and the     *)
(* catch of the call handler rethrows that error as it is, not as a        *)
(* RunCloud API error; a method that reads no argument (health_check)      *)
(* issues its request all the same.                                        *)
C29_UndefinedArguments ==
  (InCall /\ ~inv.hasArgs /\ inv.handler # "default")
    => IF CalledMethod.reads
       THEN /\ inv.pc = "Failed"
            /\ inv.calls = 0
            /\ inv.req = NoRequest
            /\ inv.remote = NoOutcome
            /\ inv.error = TypeError
            /\ Occurrences(ErrorPrefix(variant), inv.error.message) = 0
       ELSE /\ inv.calls = 1
            /\ inv.req.method = CalledMethod.method
            /\ inv.req.path = TemplateLiteral(CalledMethod.path, EmptyObject)

\* get_server of the full server has been called without arguments.
C29_Witness ==
  /\ variant = "full"
  /\ ~inv.hasArgs
  /\ inv.name = "get_server"
  /\ CalledMethod.reads
  /\ inv.pc = "Failed"
  /\ inv.calls = 0
  /\ inv.error = TypeError

(* C30: when the remote API answers non-2xx with a body that has no        *)
(* message member, or an empty one, the call fails with code InternalError *)
(* and the prefix followed by the fallback: the transport error's own      *)
(* message in src/index-basic.js and the 54-tool server, the status text   *)
(* of the response in the full server.                                     *)
C30_FallbackMessage ==
  (inv.pc = "Failed" /\ inv.remote.kind = "http" /\ ~Truthy(inv.remote.dataMessage))
    => /\ inv.error.kind = "McpError"
       /\ inv.error.code = "InternalError"
       /\ inv.error.message =
            <<ErrorPrefix(variant)>>
              \o (IF variant = "full" THEN inv.remote.statusText
                                      ELSE inv.remote.message)

\* The same for the bodies that are JSON objects.
FallbackForObjectBodies ==
  (inv.pc = "Failed" /\ inv.remote.kind = "http" /\ ~Truthy(inv.remote.dataMessage)
     /\ inv.remote.data # JNull)
    => /\ inv.error.kind = "McpError"
       /\ inv.error.code = "InternalError"
       /\ inv.error.message =
            <<ErrorPrefix(variant)>>
              \o (IF variant = "full" THEN inv.remote.statusText
                                      ELSE inv.remote.message)

\* C26 for the bodies that are JSON objects.
WrappedOnceForObjectBodies ==
  (variant = "full" /\ inv.pc = "Failed" /\ inv.remote.kind = "http"
     /\ inv.remote.data # JNull)
    => /\ inv.error = ApiResponseCatch("full", AxiosError(inv.remote))
       /\ inv.error.kind = "McpError"
       /\ inv.error.code = "InternalError"
       /\ Occurrences("RunCloud API error: ", inv.error.message) = 1

====
